---- MODULE Spec2Model ----
(***************************************************************************)
(* A model of src/main.py: the Facebook page scraper and feed generator.   *)
(*                                                                         *)
(* The program is sequential.  Each of its routines is modelled as a small *)
(* state machine over the variables below, with its own specification:     *)
(*   SpecBlocking  FacebookScraper.handle_blocking_elements                *)
(*   SpecScrape    FacebookScraper.scrape                                  *)
(*   SpecExtract   FacebookScraper._extract_posts                          *)
(*   SpecRss       generate_rss                                            *)
(*   SpecMain      main                                                    *)
(* What the browser, the page, the resolver and the file system answer is  *)
(* the nondeterministic input of each action.  Python strings are modelled *)
(* as sequences of one-character strings, so that the substring, prefix    *)
(* and pattern tests of the code are computed, not assumed.                *)
(***************************************************************************)
EXTENDS Integers, Sequences, FiniteSets, TLC

VARIABLES
    pc,               \* position of the running routine
    \* ---- handle_blocking_elements
    selector,         \* index of the dismiss selector being tried (1..NumSelectors)
    attempted,        \* history: the steps that have been started
    clicked,          \* the selectors whose control was clicked
    swept,            \* the DOM sweep script ran to its end
    escaped,          \* the Escape key was sent
    raised,           \* history: the steps that raised
    \* ---- scrape
    page_exists,      \* the local `page` has been assigned ('page' in locals())
    browser_closed,   \* browser.close() returned
    last_height,      \* last_height
    no_change_count,  \* no_change_count
    scroll_iteration, \* number of scroll iterations completed
    heights,          \* history: the last NoChangeLimit + 1 scroll-height readings
    attempt,          \* attempt of the wait for a content block
    self_posts,       \* self.posts
    extracted,        \* history: what _extract_posts returned
    extract_calls,    \* history: number of calls of _extract_posts
    caught,           \* the except of line 196 was entered
    raised_at,        \* history: where the exception caught at line 196 was raised
    error_shot,       \* the debug screenshot of line 201 was attempted
    result,           \* what scrape() returned, once pc = "sc_returned"
    \* ---- _extract_posts
    fixture,          \* the family of blocks the page of this run is made of
    n_articles,       \* len(articles)
    max_posts,        \* max_posts
    i,                \* number of blocks processed: the index of the next one
    article,          \* the block processed last
    last_kind,        \* history: what was done with it (post, comment, short, error)
    posts,            \* posts
    \* ---- generate_rss
    rss_posts,        \* the argument posts
    sorted_posts,     \* sorted_posts
    entries,          \* the entries added to the feed generator, in the order added
    feed_written,     \* fg.rss_file(output) has written the document
    rss_caught,       \* the handler of line 677 ran
    \* ---- main
    accounts,         \* ACCOUNTS
    account_idx,      \* how many accounts the loop has taken: the index of the current one
    fresh,            \* what scraper.scrape returned for the current account
    main_posts,       \* posts of main(): the fresh posts, then the cached ones
    cache_store,      \* the cache files on disk, by the filename of the account
    feed_store,       \* the feed files on disk, by the filename of the account
    outcomes          \* history: how each account taken so far has ended

hbVars == <<selector, attempted, clicked, swept, escaped, raised>>

scVars == <<page_exists, browser_closed, last_height, no_change_count,
            scroll_iteration, heights, attempt, self_posts, extracted,
            extract_calls, caught, raised_at, error_shot, result>>

exVars == <<fixture, n_articles, max_posts, i, article, last_kind, posts>>

rsVars == <<rss_posts, sorted_posts, entries, feed_written, rss_caught>>
mnVars == <<accounts, account_idx, fresh, main_posts, cache_store, feed_store, outcomes>>

vars == <<pc, hbVars, scVars, exVars, rsVars, mnVars>>

notHb == <<scVars, exVars, rsVars, mnVars>>
notSc == <<hbVars, exVars, rsVars, mnVars>>
notEx == <<hbVars, scVars, rsVars, mnVars>>
notRs == <<hbVars, scVars, exVars, mnVars>>
notMn == <<hbVars, scVars, exVars, rsVars>>

\* None of Python, where a string may stand: no string has this shape.
None == <<"None">>

(***************************************************************************)
(* Python strings, as sequences of one-character strings                   *)
(***************************************************************************)

Digits == <<"0", "1", "2", "3", "4", "5", "6", "7", "8", "9">>
UpperCase == <<"A", "B", "C", "D", "E", "F", "G", "H", "I", "J", "K", "L", "M",
               "N", "O", "P", "Q", "R", "S", "T", "U", "V", "W", "X", "Y", "Z">>
LowerCase == <<"a", "b", "c", "d", "e", "f", "g", "h", "i", "j", "k", "l", "m",
               "n", "o", "p", "q", "r", "s", "t", "u", "v", "w", "x", "y", "z">>

Range(f) == {f[k] : k \in DOMAIN f}

\* str.isdigit of one character, and the value of a digit.
IsDigit(c) == c \in Range(Digits)
DigitValue(c) == (CHOOSE k \in DOMAIN Digits : Digits[k] = c) - 1

\* The characters str.split() and str.strip() take for white space, \s of re.
IsSpace(c) == c \in {" ", "\n", "\t"}

\* \w of re: the characters between which \b finds no boundary.
IsWord(c) == c \in Range(Digits) \cup Range(UpperCase) \cup Range(LowerCase) \cup {"_"}

\* str.lower.
LowerChar(c) ==
    IF c \in Range(UpperCase)
      THEN LowerCase[CHOOSE k \in DOMAIN UpperCase : UpperCase[k] = c]
      ELSE c
Lower(s) == [k \in DOMAIN s |-> LowerChar(s[k])]

\* s[a:b] of Python, for 0 <= a and 0 <= b.
Slice(s, a, b) ==
    LET hi == IF b > Len(s) THEN Len(s) ELSE b
    IN  IF a >= hi THEN <<>> ELSE SubSeq(s, a + 1, hi)

\* p occurs in s at (0-based) index k.
OccursAt(s, p, k) ==
    /\ k >= 0
    /\ k + Len(p) <= Len(s)
    /\ \A j \in 1..Len(p) : s[k + j] = p[j]

\* s.startswith(p), s.find(p) and p in s.
StartsWith(s, p) == OccursAt(s, p, 0)
Find(s, p) ==
    IF \E k \in 0..Len(s) : OccursAt(s, p, k)
      THEN CHOOSE k \in 0..Len(s) :
               /\ OccursAt(s, p, k)
               /\ \A j \in 0..(k - 1) : ~OccursAt(s, p, j)
      ELSE -1
Contains(s, p) == Find(s, p) # -1

\* s.strip().
Strip(s) ==
    LET keep == {k \in DOMAIN s : ~IsSpace(s[k])}
    IN  IF keep = {} THEN <<>>
        ELSE LET lo == CHOOSE k \in keep : \A j \in keep : k <= j
                 hi == CHOOSE k \in keep : \A j \in keep : k >= j
             IN  SubSeq(s, lo, hi)

\* s.split(c) for a one-character separator: the pieces between separators,
\* empty pieces included.
RECURSIVE SplitOn(_, _)
SplitOn(s, c) ==
    LET k == Find(s, <<c>>)
    IN  IF k = -1 THEN <<s>>
        ELSE <<Slice(s, 0, k)>> \o SplitOn(Slice(s, k + 1, Len(s)), c)

\* s.split(): the runs of characters that are not white space.
RECURSIVE SplitWords(_)
SplitWords(s) ==
    LET t == Strip(s)
    IN  IF t = <<>> THEN <<>>
        ELSE LET spaces == {k \in DOMAIN t : IsSpace(t[k])}
             IN  IF spaces = {} THEN <<t>>
                 ELSE LET k == CHOOSE x \in spaces : \A y \in spaces : x <= y
                      IN  <<SubSeq(t, 1, k - 1)>> \o SplitWords(SubSeq(t, k, Len(t)))

\* sep.join(parts).
RECURSIVE Join(_, _)
Join(parts, sep) ==
    IF parts = <<>> THEN <<>>
    ELSE IF Len(parts) = 1 THEN parts[1]
    ELSE parts[1] \o sep \o Join(Tail(parts), sep)

\* int(s) for a string of digits, and str(n) for n >= 0.
RECURSIVE IntOf(_)
IntOf(s) ==
    IF s = <<>> THEN 0 ELSE 10 * IntOf(SubSeq(s, 1, Len(s) - 1)) + DigitValue(s[Len(s)])
RECURSIVE StrOf(_)
StrOf(n) ==
    IF n < 10 THEN <<Digits[n + 1]>> ELSE StrOf(n \div 10) \o <<Digits[(n % 10) + 1]>>

\* A Python value is falsy when it is None or the empty string.
Truthy(v) == v # None /\ v # <<>>

(***************************************************************************)
(* handle_blocking_elements (src/main.py 19-59)                            *)
(***************************************************************************)

\* The dismiss selectors tried in order (lines 23-29).
NumSelectors == 5

ClickStep(n) == <<"click", n>>
SweepStep == <<"sweep", 0>>
EscapeStep == <<"escape", 0>>

AllBlockingSteps ==
    {ClickStep(n) : n \in 1..NumSelectors} \cup {SweepStep, EscapeStep}

\* The variables of handle_blocking_elements when it starts.
HbStart ==
    /\ selector = 1
    /\ attempted = {}
    /\ clicked = {}
    /\ swept = FALSE
    /\ escaped = FALSE
    /\ raised = {}

\* The variables of scrape() after FacebookScraper.__init__ (lines 14-17).
ScStart ==
    /\ page_exists = FALSE
    /\ browser_closed = FALSE
    /\ last_height = 0
    /\ no_change_count = 0
    /\ scroll_iteration = 0
    /\ heights = <<>>
    /\ attempt = 0
    /\ self_posts = <<>>
    /\ extracted = <<>>
    /\ extract_calls = 0
    /\ caught = FALSE
    /\ raised_at = "nowhere"
    /\ error_shot = FALSE
    /\ result = <<>>

\* The variables of _extract_posts before it is called.
ExStart ==
    /\ fixture = "page"
    /\ n_articles = 0
    /\ max_posts = 0
    /\ i = 0
    /\ article = <<>>
    /\ last_kind = "none"
    /\ posts = <<>>

\* The variables of generate_rss and of main() before they are called.
RsStart ==
    /\ rss_posts = <<>>
    /\ sorted_posts = <<>>
    /\ entries = <<>>
    /\ feed_written = FALSE
    /\ rss_caught = FALSE

MnStart ==
    /\ accounts = <<>>
    /\ account_idx = 0
    /\ fresh = <<>>
    /\ main_posts = <<>>
    /\ cache_store = <<>>
    /\ feed_store = <<>>
    /\ outcomes = <<>>

InitBlocking ==
    /\ pc = "hb_click"
    /\ HbStart
    /\ ScStart
    /\ ExStart
    /\ RsStart
    /\ MnStart

\* Lines 30-34: one turn of the selector loop.  query_selector may find
\* nothing, find the control and click it, or either call may raise; the
\* bare except of line 34 swallows whatever is raised and the loop goes on.
HB_Click ==
    /\ pc = "hb_click"
    /\ \E outcome \in {"absent", "clicked", "query_raises", "click_raises"} :
         /\ attempted' = attempted \cup {ClickStep(selector)}
         /\ clicked' = IF outcome = "clicked" THEN clicked \cup {selector} ELSE clicked
         /\ raised' = IF outcome \in {"query_raises", "click_raises"}
                        THEN raised \cup {ClickStep(selector)}
                        ELSE raised
    /\ IF selector < NumSelectors
         THEN /\ selector' = selector + 1
              /\ pc' = pc
         ELSE /\ selector' = selector
              /\ pc' = "hb_sweep"
    /\ UNCHANGED <<swept, escaped>>
    /\ UNCHANGED notHb

\* Lines 38-54: the DOM sweep script.  It is not wrapped in a try of its
\* own: when page.evaluate raises, control goes to the except of line 58 and
\* the routine ends.
HB_Sweep ==
    /\ pc = "hb_sweep"
    /\ attempted' = attempted \cup {SweepStep}
    /\ \E ok \in BOOLEAN :
         IF ok
           THEN /\ swept' = TRUE
                /\ raised' = raised
                /\ pc' = "hb_escape"
           ELSE /\ swept' = swept
                /\ raised' = raised \cup {SweepStep}
                /\ pc' = "hb_done"
    /\ UNCHANGED <<selector, clicked, escaped>>
    /\ UNCHANGED notHb

\* Line 57: the Escape key; a failure is caught at line 58.
HB_Escape ==
    /\ pc = "hb_escape"
    /\ attempted' = attempted \cup {EscapeStep}
    /\ \E ok \in BOOLEAN :
         /\ escaped' = ok
         /\ raised' = IF ok THEN raised ELSE raised \cup {EscapeStep}
    /\ pc' = "hb_done"
    /\ UNCHANGED <<selector, clicked, swept>>
    /\ UNCHANGED notHb

NextBlocking ==
    \/ HB_Click
    \/ HB_Sweep
    \/ HB_Escape

SpecBlocking == InitBlocking /\ [][NextBlocking]_vars

\* C5: every step of handle_blocking_elements is independently best-effort:
\* whichever step raises, all the remaining steps are still executed, so that
\* when the routine has ended every step (each dismiss control, the DOM
\* sweep, the Escape key) has been attempted.
C5_AllStepsAttempted ==
    pc = "hb_done" => attempted = AllBlockingSteps

(***************************************************************************)
(* scrape (src/main.py 61-205)                                             *)
(***************************************************************************)

\* range(20) of line 134, the limit of line 157, range(3) of line 167 and
\* the low-yield threshold of line 187.
ScrollBudget == 20
NoChangeLimit == 3
WaitAttempts == 3
LowYield == 3

\* The scroll heights the page may report, and the longest list of posts
\* _extract_posts returns in the model.
MaxHeight == 2
MaxExtracted == 3

Heights == 1..MaxHeight

\* The lists _extract_posts may return; a post is named by its rank.
PostLists == {[k \in 1..n |-> k] : n \in 0..MaxExtracted}

\* The last n elements of s.
LastN(s, n) == IF Len(s) <= n THEN s ELSE SubSeq(s, Len(s) - n + 1, Len(s))

\* Lines 153-161 with the reset of the else branch left out.
NextNoChange_NoReset(count, new_height, height) ==
    IF new_height = height THEN count + 1 ELSE count

\* Lines 153-161: the unchanged-counter after a reading.
NextNoChange(count, new_height, height) ==
    IF new_height = height THEN count + 1 ELSE 0

\* Line 205 if the handler of line 196 dropped the posts.
ReturnedPosts_Empty(stored, was_caught) ==
    IF was_caught THEN <<>> ELSE stored

\* Line 205: return self.stored, whether or not an exception was caught.
ReturnedPosts(stored, was_caught) == stored

InitScrape ==
    /\ pc = "sc_launch"
    /\ ScStart
    /\ HbStart
    /\ ExStart
    /\ RsStart
    /\ MnStart

\* An exception raised at the current position inside the try of line 64:
\* control goes to the except of line 196.
ScRaise ==
    /\ pc' = "sc_handler"
    /\ raised_at' = pc

\* Lines 65-114: start the browser, create the context and the page.  `page`
\* is assigned by the last statement, so a failure leaves it unassigned.
SC_Launch ==
    /\ pc = "sc_launch"
    /\ \/ /\ page_exists' = TRUE
          /\ pc' = "sc_goto"
          /\ UNCHANGED raised_at
       \/ /\ ScRaise
          /\ UNCHANGED page_exists
    /\ UNCHANGED <<browser_closed, last_height, no_change_count, scroll_iteration,
                   heights, attempt, self_posts, extracted, extract_calls,
                   caught, error_shot, result>>
    /\ UNCHANGED notSc

\* Lines 117-125: navigation, the initial wait and handle_blocking_elements
\* (which raises nothing).  A PlaywrightTimeout goes to line 125, any other
\* exception to line 196.
SC_Goto ==
    /\ pc = "sc_goto"
    /\ \/ /\ pc' = "sc_height"
          /\ UNCHANGED raised_at
       \/ /\ pc' = "sc_timeout"
          /\ UNCHANGED raised_at
       \/ ScRaise
    /\ UNCHANGED <<page_exists, browser_closed, last_height, no_change_count,
                   scroll_iteration, heights, attempt, self_posts, extracted,
                   extract_calls, caught, error_shot, result>>
    /\ UNCHANGED notSc

\* Lines 126-128 without the return of line 128: the code would go on to the
\* scroll loop with the browser closed.
SC_Timeout_NoReturn ==
    /\ pc = "sc_timeout"
    /\ browser_closed' = TRUE
    /\ pc' = "sc_height"
    /\ UNCHANGED <<page_exists, last_height, no_change_count, scroll_iteration,
                   heights, attempt, self_posts, extracted, extract_calls,
                   caught, raised_at, error_shot, result>>
    /\ UNCHANGED notSc

\* Lines 126-128: the navigation timed out: close the browser and return [].
SC_Timeout ==
    /\ pc = "sc_timeout"
    /\ \/ /\ browser_closed' = TRUE
          /\ result' = <<>>
          /\ pc' = "sc_returned"
          /\ UNCHANGED raised_at
       \/ /\ ScRaise
          /\ UNCHANGED <<browser_closed, result>>
    /\ UNCHANGED <<page_exists, last_height, no_change_count, scroll_iteration,
                   heights, attempt, self_posts, extracted, extract_calls,
                   caught, error_shot>>
    /\ UNCHANGED notSc

\* Lines 132-133: the first reading of the scroll height.
SC_FirstHeight ==
    /\ pc = "sc_height"
    /\ \/ \E h \in Heights :
            /\ last_height' = h
            /\ heights' = <<h>>
            /\ no_change_count' = 0
            /\ pc' = "sc_scroll"
            /\ UNCHANGED raised_at
       \/ /\ ScRaise
          /\ UNCHANGED <<last_height, heights, no_change_count>>
    /\ UNCHANGED <<page_exists, browser_closed, scroll_iteration, attempt,
                   self_posts, extracted, extract_calls, caught, error_shot, result>>
    /\ UNCHANGED notSc

\* Lines 134-162: one iteration of the scroll loop: the wheel bursts, the
\* scripted scroll, the settle delay, handle_blocking_elements, the new
\* reading and the test for the page bottom.
SC_Scroll ==
    /\ pc = "sc_scroll"
    /\ scroll_iteration < ScrollBudget
    /\ \/ \E new_height \in Heights :
            LET count == NextNoChange(no_change_count, new_height, last_height)
                stop == new_height = last_height /\ count >= NoChangeLimit
            IN  /\ no_change_count' = count
                /\ scroll_iteration' = scroll_iteration + 1
                /\ heights' = LastN(Append(heights, new_height), NoChangeLimit + 1)
                \* the break of line 159 skips the assignment of line 162
                /\ last_height' = IF stop THEN last_height ELSE new_height
                /\ pc' = IF stop \/ scroll_iteration + 1 = ScrollBudget
                           THEN "sc_wait" ELSE "sc_scroll"
                /\ UNCHANGED raised_at
       \/ /\ ScRaise
          /\ UNCHANGED <<no_change_count, scroll_iteration, heights, last_height>>
    /\ UNCHANGED <<page_exists, browser_closed, attempt, self_posts, extracted,
                   extract_calls, caught, error_shot, result>>
    /\ UNCHANGED notSc

\* Lines 165-181 if the except of line 180 were missing: the timeout of the
\* last attempt, re-raised at line 177, and every other exception would
\* reach the handler of line 196.
AfterWait_Fatal(outcome, n) ==
    IF outcome = "found" THEN "sc_extract"
    ELSE IF outcome = "timeout" /\ n < WaitAttempts - 1 THEN "sc_wait"
    ELSE "sc_handler"

\* Lines 165-181: where the code goes after attempt n of the wait: to the
\* next attempt after a timeout that is not the last, else to line 184,
\* whatever was raised (except of line 180).
AfterWait(outcome, n) ==
    IF outcome = "timeout" /\ n < WaitAttempts - 1 THEN "sc_wait"
    ELSE "sc_extract"

\* Lines 165-181: one attempt of the wait for a content block.  Whatever
\* is raised inside the try of line 165 is swallowed at line 180.
SC_WaitArticles ==
    /\ pc = "sc_wait"
    /\ attempt < WaitAttempts
    /\ \E outcome \in {"found", "timeout", "timeout_then_pause_raises", "other_error"} :
         /\ pc' = AfterWait(outcome, attempt)
         /\ attempt' = IF pc' = "sc_wait" THEN attempt + 1 ELSE attempt
    /\ UNCHANGED <<page_exists, browser_closed, last_height, no_change_count,
                   scroll_iteration, heights, self_posts, extracted, extract_calls,
                   caught, raised_at, error_shot, result>>
    /\ UNCHANGED notSc

\* Line 184: self.posts = await self._extract_posts(page, max_posts).
SC_Extract ==
    /\ pc = "sc_extract"
    /\ extract_calls' = extract_calls + 1
    /\ \/ \E got \in PostLists :
            /\ self_posts' = got
            /\ extracted' = got
            /\ pc' = IF Len(got) < LowYield THEN "sc_debug" ELSE "sc_close"
            /\ UNCHANGED raised_at
       \/ /\ ScRaise
          /\ UNCHANGED <<self_posts, extracted>>
    /\ UNCHANGED <<page_exists, browser_closed, last_height, no_change_count,
                   scroll_iteration, heights, attempt, caught, error_shot, result>>
    /\ UNCHANGED notSc

\* Lines 187-192: the low-yield debug capture (screenshot and HTML dump).
SC_Debug ==
    /\ pc = "sc_debug"
    /\ \/ /\ pc' = "sc_close"
          /\ UNCHANGED raised_at
       \/ ScRaise
    /\ UNCHANGED <<page_exists, browser_closed, last_height, no_change_count,
                   scroll_iteration, heights, attempt, self_posts, extracted,
                   extract_calls, caught, error_shot, result>>
    /\ UNCHANGED notSc

\* Line 194: close the browser (and leave the async with block).
SC_Close ==
    /\ pc = "sc_close"
    /\ \/ /\ browser_closed' = TRUE
          /\ pc' = "sc_return"
          /\ UNCHANGED raised_at
       \/ /\ ScRaise
          /\ UNCHANGED browser_closed
    /\ UNCHANGED <<page_exists, last_height, no_change_count, scroll_iteration,
                   heights, attempt, self_posts, extracted, extract_calls,
                   caught, error_shot, result>>
    /\ UNCHANGED notSc

\* Lines 196-203: the handler of the whole scrape: a screenshot is tried
\* when `page` exists, and its own failure is swallowed.
SC_Handler ==
    /\ pc = "sc_handler"
    /\ caught' = TRUE
    /\ error_shot' = page_exists
    /\ pc' = "sc_return"
    /\ UNCHANGED <<page_exists, browser_closed, last_height, no_change_count,
                   scroll_iteration, heights, attempt, self_posts, extracted,
                   extract_calls, raised_at, result>>
    /\ UNCHANGED notSc

\* Line 205: return self.posts.
SC_Return ==
    /\ pc = "sc_return"
    /\ result' = ReturnedPosts(self_posts, caught)
    /\ pc' = "sc_returned"
    /\ UNCHANGED <<page_exists, browser_closed, last_height, no_change_count,
                   scroll_iteration, heights, attempt, self_posts, extracted,
                   extract_calls, caught, raised_at, error_shot>>
    /\ UNCHANGED notSc

NextScrape ==
    \/ SC_Launch
    \/ SC_Goto
    \/ SC_Timeout
    \/ SC_FirstHeight
    \/ SC_Scroll
    \/ SC_WaitArticles
    \/ SC_Extract
    \/ SC_Debug
    \/ SC_Close
    \/ SC_Handler
    \/ SC_Return

SpecScrape == InitScrape /\ [][NextScrape]_vars

\* The positions of scrape() before the scroll loop, and in it.
BeforeLoop == {"sc_launch", "sc_goto", "sc_timeout", "sc_height"}

\* The scroll loop has ended by itself (not by an exception).
LoopEnded ==
    /\ pc \notin BeforeLoop \cup {"sc_scroll"}
    /\ raised_at \notin BeforeLoop \cup {"sc_scroll"}
    /\ heights # <<>>

\* The last NoChangeLimit readings each equal the reading before them.
UnchangedRun ==
    /\ Len(heights) = NoChangeLimit + 1
    /\ \A k \in 1..NoChangeLimit : heights[k + 1] = heights[k]

\* C7: the scroll loop runs at most 20 iterations, and it ends before the
\* 20th exactly when the height read at the end of an iteration equalled the
\* previous reading for 3 consecutive iterations: never before the 3rd
\* iteration, never on unchanged readings that are not consecutive, and never
\* going on after 3 consecutive unchanged readings.
C7_ScrollLoopBound ==
    /\ scroll_iteration <= ScrollBudget
    /\ (LoopEnded /\ scroll_iteration < ScrollBudget)
          => (UnchangedRun /\ scroll_iteration >= NoChangeLimit)
    /\ LoopEnded => (scroll_iteration = ScrollBudget \/ UnchangedRun)
    /\ pc = "sc_scroll" => ~UnchangedRun

\* C7 witness: the loop has ended at its 6th iteration: the 3rd reading
\* differed and reset the counter, the 4th to 6th were unchanged.
C7_Witness ==
    /\ LoopEnded
    /\ scroll_iteration = 6
    /\ UnchangedRun
    /\ no_change_count = NoChangeLimit

\* C6 as stated: when an exception was caught at the top of scrape(), scrape()
\* returns zero posts, also when self.posts was already non-empty.
C6_CaughtReturnsNothing ==
    (pc = "sc_returned" /\ caught) => result = <<>>

\* C6 amended: an exception raised anywhere in scrape() is caught at line
\* 196, the debug screenshot is attempted exactly when the page exists, and
\* scrape() returns self.posts: no post when the exception was raised before
\* _extract_posts returned, the extracted posts when it was raised after
\* (debug capture, browser close).
C6_CaughtReturnsSelfPosts ==
    /\ pc = "sc_handler" => raised_at # "nowhere"
    /\ caught => error_shot = page_exists
    /\ (pc = "sc_returned" /\ caught) =>
          result = (IF raised_at \in {"sc_debug", "sc_close"} THEN extracted ELSE <<>>)

\* C6 witness: the browser close raised after a non-empty extraction, and
\* scrape() returned the extracted posts.
C6_Witness ==
    /\ pc = "sc_returned"
    /\ caught
    /\ raised_at = "sc_close"
    /\ result # <<>>

(***************************************************************************)
(* _extract_posts (src/main.py 207-598): what is read from one block       *)
(*                                                                         *)
(* A content block (div[role="article"]) is a record of what the page      *)
(* answers to the queries the code makes on it:                            *)
(*   reply      the reply-affordance selector of line 220 matches          *)
(*   aria_label the aria-label attribute (None: no attribute)              *)
(*   msgs       for each message selector of lines 270-276, the inner text *)
(*              of the element it finds (Absent: it finds none)            *)
(*   full_text  article.inner_text()                                       *)
(*   post_href  href of the anchor found by line 353 (Absent: none found)  *)
(*   fb_hrefs   hrefs of the anchors found by line 356                     *)
(*   video      a video element exists; video_id, ytdlp (the output of the *)
(*              resolver, None: it failed), video_src, poster              *)
(*   feed_img   src of the feed-image element, photo_img src of the image  *)
(*              inside a photo anchor (Absent: no element, None: no src)   *)
(*   images     the img elements: src, width, height, svg (inside an svg)  *)
(*   fails      the one call on the block that raises ("none": no call)    *)
(*   clock      datetime.now(timezone.utc) while the block is processed    *)
(***************************************************************************)

\* A query that finds no element.
Absent == <<"Absent">>

\* Line 227: the aria-label test, compared without lowering the label.
AriaIsComment_CaseSensitive(aria_label) ==
    Truthy(aria_label) /\ Contains(aria_label, <<"c", "o", "m", "m", "e", "n", "t">>)

\* Line 227: aria_label and "comment" in aria_label.lower().
AriaIsComment(aria_label) ==
    Truthy(aria_label) /\ Contains(Lower(aria_label), <<"c", "o", "m", "m", "e", "n", "t">>)

\* Lines 279-287: the text of the first message element whose stripped text
\* is longer than 10 characters (Absent: no selector gives one).
MinMessageLen == 10
MessageText(msgs) ==
    LET good == {k \in DOMAIN msgs :
                    msgs[k] # Absent /\ Len(Strip(msgs[k])) > MinMessageLen}
    IN  IF good = {} THEN Absent
        ELSE msgs[CHOOSE k \in good : \A j \in good : k <= j]

\* Lines 301-304 and 320-323.
FooterMarkers ==
    {<<"A", "l", "l", " ", "r", "e", "a", "c", "t", "i", "o", "n", "s", ":">>, <<"V", "i", "e", "w", " ", "m", "o", "r", "e", " ", "c", "o", "m", "m", "e", "n", "t", "s">>, <<"W", "r", "i", "t", "e", " ", "a", " ", "c", "o", "m", "m", "e", "n", "t">>,
     <<"M", "o", "s", "t", " ", "r", "e", "l", "e", "v", "a", "n", "t">>, <<"V", "i", "e", "w", " ", "a", "l", "l">>, <<"r", "e", "p", "l", "i", "e", "s">>, <<"s", "h", "a", "r", "e", "s">>, <<"c", "o", "m", "m", "e", "n", "t", "s">>}
SkipPhrases ==
    {<<"L", "i", "k", "e">>, <<"C", "o", "m", "m", "e", "n", "t">>, <<"S", "h", "a", "r", "e">>, <<"S", "e", "n", "d">>, <<"W", "r", "i", "t", "e", " ", "a", " ", "c", "o", "m", "m", "e", "n", "t", ".", ".", ".">>,
     <<"S", "h", "a", "r", "e", "s">>, <<"C", "o", "m", "m", "e", "n", "t", "s">>, <<"R", "e", "p", "l", "y">>, <<"F", "o", "l", "l", "o", "w">>, <<"J", "o", "i", "n">>}

\* Lines 307-311: the index of the earliest footer marker, len(full_text)
\* when there is none.
CutoffIndex(full_text) ==
    LET found == {Find(full_text, m) : m \in FooterMarkers} \ {-1}
        all == found \cup {Len(full_text)}
    IN  CHOOSE k \in all : \A j \in all : k <= j

\* Lines 326-337 without the test of line 334.
KeepLine_NoDigitRule(line_stripped) ==
    /\ line_stripped # <<>>
    /\ line_stripped \notin SkipPhrases

\* Lines 326-337: a stripped line is kept unless it is empty, a UI phrase,
\* or shorter than 5 characters with a digit in it.
ShortLineLen == 5
KeepLine(line_stripped) ==
    /\ line_stripped # <<>>
    /\ line_stripped \notin SkipPhrases
    /\ ~(Len(line_stripped) < ShortLineLen
           /\ \E k \in DOMAIN line_stripped : IsDigit(line_stripped[k]))

\* Lines 293-339: the body recovered from the whole text of the block.
FallbackText(full_text) ==
    LET post_text == Slice(full_text, 0, CutoffIndex(full_text))
        lines == SplitOn(post_text, "\n")
        stripped == [k \in DOMAIN lines |-> Strip(lines[k])]
        clean_lines == SelectSeq(stripped, KeepLine)
    IN  Join(clean_lines, <<"\n">>)

\* Line 342 if it only stripped the ends of the text.
NormalizeSpace_StripOnly(post_text) == Strip(post_text)

\* Line 342: ' '.join(post_text.split()).
NormalizeSpace(post_text) == Join(SplitWords(post_text), <<" ">>)

\* Lines 345-346: drop the page name from the start of the body.
StripPageName(post_text, page_name) ==
    IF StartsWith(Lower(post_text), Lower(page_name))
      THEN Strip(Slice(post_text, Len(page_name), Len(post_text)))
      ELSE post_text

\* Lines 289-346: the cleaned body of a block.
BodyText(b, page_name) ==
    LET msg == MessageText(b.msgs)
        raw == IF msg # Absent THEN msg ELSE FallbackText(b.full_text)
    IN  StripPageName(NormalizeSpace(raw), page_name)

\* Line 348: bodies shorter than this are skipped.
MinBodyLen == 5

\* Line 570: the title is the body cut to 80 characters.
TitleLen == 80
TitleOf(post_text) ==
    IF Len(post_text) > TitleLen
      THEN Slice(post_text, 0, TitleLen) \o <<".", ".", ".">>
      ELSE post_text

\* Lines 352-368: the link of the post (None: no anchor gave one).
FacebookOrigin == <<"h", "t", "t", "p", "s", ":", "/", "/", "w", "w", "w", ".", "f", "a", "c", "e", "b", "o", "o", "k", ".", "c", "o", "m">>
LinkOf(b) ==
    LET cand == {k \in DOMAIN b.fb_hrefs :
                    /\ Truthy(b.fb_hrefs[k])
                    /\ \/ Contains(b.fb_hrefs[k], <<"/", "p", "o", "s", "t", "s", "/">>)
                       \/ Contains(b.fb_hrefs[k], <<"/", "p", "e", "r", "m", "a", "l", "i", "n", "k", ".", "p", "h", "p">>)}
        href == IF b.post_href # Absent THEN b.post_href
                ELSE IF cand = {} THEN None
                ELSE b.fb_hrefs[CHOOSE k \in cand : \A j \in cand : k <= j]
        abs == IF StartsWith(href, <<"/">>) THEN FacebookOrigin \o href ELSE href
    IN  IF Truthy(href) THEN SplitOn(abs, "?")[1] ELSE None

\* C13: the wait for a content block takes at most 3 attempts, each attempt
\* goes to the next attempt or to the extraction and never to the handler of
\* scrape(), and _extract_posts is called once when the wait is over: not
\* before, and not a second time.
C13_WaitThenExtractOnce ==
    [][/\ pc = "sc_wait" =>
             /\ pc' \in {"sc_wait", "sc_extract"}
             /\ pc' = "sc_wait" => attempt' = attempt + 1
             /\ attempt' < WaitAttempts
             /\ extract_calls' = 0
       /\ pc = "sc_extract" => extract_calls = 0 /\ extract_calls' = 1
       /\ pc # "sc_extract" => extract_calls' = extract_calls]_vars

\* The wait timed out three times, the extraction was called once, found no
\* post, and scrape() has returned.
C13_Witness ==
    /\ pc = "sc_returned"
    /\ attempt = WaitAttempts - 1
    /\ extract_calls = 1
    /\ extracted = <<>>
    /\ ~caught

(***************************************************************************)
(* _extract_posts: media (lines 371-514)                                   *)
(***************************************************************************)

\* `s and s.startswith('http')`.
IsHttp(s) == Truthy(s) /\ StartsWith(s, <<"h", "t", "t", "p">>)

\* The values of media_type (lines 373, 378, 461).
VideoType == <<"v", "i", "d", "e", "o">>
ImageType == <<"i", "m", "a", "g", "e">>

NoMedia == [image |-> None, video |-> None, media_type |-> None]

\* Line 434: the watch permalink built from the video identifier.
WatchPrefix == <<"h", "t", "t", "p", "s", ":", "/", "/", "w", "w", "w", ".", "f", "a", "c", "e", "b", "o", "o", "k", ".", "c", "o", "m", "/", "w", "a", "t", "c", "h", "/", "?", "v", "=">>

\* Lines 412-426 if the lines containing .mp4 were not preferred.
ResolvedUrl_FirstLine(output) ==
    LET urls == SplitOn(Strip(output), "\n")
    IN  IF StartsWith(urls[1], <<"h", "t", "t", "p">>) THEN urls[1] ELSE None

\* Lines 412-426: the URL taken from the resolver's output: the first line
\* that starts with http and contains .mp4, else the first line when it
\* starts with http, else None.
ResolvedUrl(output) ==
    LET urls == SplitOn(Strip(output), "\n")
        mp4 == {k \in DOMAIN urls :
                   StartsWith(urls[k], <<"h", "t", "t", "p">>) /\ Contains(urls[k], <<".", "m", "p", "4">>)}
    IN  IF mp4 # {} THEN urls[CHOOSE k \in mp4 : \A j \in mp4 : k <= j]
        ELSE IF StartsWith(urls[1], <<"h", "t", "t", "p">>) THEN urls[1]
        ELSE None

\* Lines 405-434 without the fallback of lines 433-434.
VideoUrlFromId_NoFallback(video_id, ytdlp) ==
    IF ytdlp = None THEN None ELSE ResolvedUrl(ytdlp)

\* Lines 405-434: the video URL for a video identifier: what the resolver
\* gives (ytdlp = None: it raised), else the watch permalink.
VideoUrlFromId(video_id, ytdlp) ==
    LET resolved == IF ytdlp = None THEN None ELSE ResolvedUrl(ytdlp)
    IN  IF Truthy(resolved) THEN resolved ELSE WatchPrefix \o video_id

\* Lines 377-451: the media of a block that holds a video element.  A call
\* that raises leaves what was assigned before it (except of line 513).
VideoMedia(b) ==
    IF b.fails = "video_id"
      THEN [image |-> None, video |-> None, media_type |-> VideoType]
    ELSE
    LET from_id == IF Truthy(b.video_id)
                     THEN VideoUrlFromId(b.video_id, b.ytdlp)
                     ELSE None
        src_ok == /\ Truthy(b.video_src)
                  /\ ~StartsWith(b.video_src, <<"b", "l", "o", "b", ":">>)
                  /\ StartsWith(b.video_src, <<"h", "t", "t", "p">>)
        video_url == IF Truthy(from_id) THEN from_id
                     ELSE IF src_ok THEN b.video_src
                     ELSE None
    IN  IF ~Truthy(from_id) /\ b.fails = "video_src"
          THEN [image |-> None, video |-> None, media_type |-> VideoType]
        ELSE IF b.fails = "poster"
          THEN [image |-> None, video |-> video_url, media_type |-> VideoType]
        ELSE IF IsHttp(b.poster)
          THEN [image |-> b.poster, video |-> video_url, media_type |-> VideoType]
        ELSE IF b.fails = "thumb" \/ b.feed_img = Absent
          THEN [image |-> None, video |-> video_url, media_type |-> VideoType]
        ELSE [image |-> b.feed_img, video |-> video_url, media_type |-> VideoType]

\* Lines 483-489.
NoisePatterns ==
    {<<"e", "m", "o", "j", "i", ".", "p", "h", "p">>, <<"r", "s", "r", "c", ".", "p", "h", "p">>, <<"s", "t", "a", "t", "i", "c", ".", "x", "x">>, <<"s", "t", "a", "t", "i", "c", ".", "f", "b">>,
     <<"p", "5", "0", "x", "5", "0">>, <<"s", "1", "0", "0", "x", "1", "0", "0">>, <<"s", "8", "0", "x", "8", "0">>, <<"s", "6", "4", "x", "6", "4">>, <<"s", "4", "0", "x", "4", "0">>,
     <<"s", "3", "2", "x", "3", "2">>, <<"c", "p", "0", "_", "d", "s", "t", "-", "j", "p", "g", "_", "s">>, <<"_", "s", "8", "0", "x", "8", "0">>,
     <<"d", "a", "t", "a", ":", "i", "m", "a", "g", "e", "/", "s", "v", "g">>, <<"p", "l", "a", "t", "f", "o", "r", "m", "-", "l", "o", "o", "k", "a", "s", "i", "d", "e">>,
     <<"s", "a", "f", "e", "_", "i", "m", "a", "g", "e", ".", "p", "h", "p">>}
IsNoise(src) == \E x \in NoisePatterns : Contains(src, x)

\* Lines 494-502: both sizes are declared, parse as numbers, and one is
\* under 100; a size that does not parse raises and the image is kept.
MinImageSide == 100
IsNumber(s) == s # <<>> /\ \A k \in DOMAIN s : IsDigit(s[k])
TooSmall(img) ==
    /\ Truthy(img.width) /\ Truthy(img.height)
    /\ IsNumber(img.width) /\ IsNumber(img.height)
    /\ (IntOf(img.width) < MinImageSide \/ IntOf(img.height) < MinImageSide)

\* Lines 476-502: an image of the scan that reaches the svg test.
PassesFilters(img) ==
    /\ Truthy(img.src)
    /\ StartsWith(img.src, <<"h", "t", "t", "p">>)
    /\ ~IsNoise(img.src)
    /\ ~TooSmall(img)

ImageFound(src) == [image |-> src, video |-> None, media_type |-> ImageType]

\* Lines 473-511: the scan of all the images of the block.
ScannedImage(b) ==
    LET ok == {k \in DOMAIN b.images :
                  PassesFilters(b.images[k]) /\ ~b.images[k].svg}
    IN  IF b.fails \in {"images", "svg"} \/ ok = {} THEN NoMedia
        ELSE ImageFound(b.images[CHOOSE k \in ok : \A j \in ok : k <= j].src)

\* Lines 454-511: the media of a block without a video element: the
\* feed-image element, else the image inside a photo anchor, else the scan.
ImageMedia(b) ==
    IF b.fails = "feed_img" THEN NoMedia
    ELSE IF b.feed_img # Absent /\ IsHttp(b.feed_img) THEN ImageFound(b.feed_img)
    ELSE IF b.fails = "photo_img" THEN NoMedia
    ELSE IF b.photo_img # Absent /\ IsHttp(b.photo_img) THEN ImageFound(b.photo_img)
    ELSE ScannedImage(b)

\* Lines 371-514 if the image strategies also ran on a video block.
ExtractMedia_ImageAfterVideo(b) ==
    IF b.fails = "video_query" THEN NoMedia
    ELSE IF ~b.video THEN ImageMedia(b)
    ELSE LET v == VideoMedia(b)
             m == ImageMedia(b)
         IN  IF m.media_type = ImageType
               THEN [image |-> m.image, video |-> v.video, media_type |-> ImageType]
               ELSE v

\* Lines 371-514: image_url, video_url and media_type of a block.
ExtractMedia(b) ==
    IF b.fails = "video_query" THEN NoMedia
    ELSE IF b.video THEN VideoMedia(b)
    ELSE ImageMedia(b)

(***************************************************************************)
(* _extract_posts: timestamp (lines 516-565)                               *)
(*                                                                         *)
(* A time is [day, sec]: the days since 0001-01-01 (datetime.min) and the  *)
(* second of the day; a timedelta is [days, secs], as Python keeps it.     *)
(***************************************************************************)

\* The words each pattern of lines 527-530 accepts after the number.
DayWords == {<<"d">>, <<"d", "a", "y">>, <<"d", "a", "y", "s">>}
HourWords == {<<"h">>, <<"h", "r">>, <<"h", "r", "s">>, <<"h", "o", "u", "r">>, <<"h", "o", "u", "r", "s">>}
MinuteWords == {<<"m">>, <<"m", "i", "n">>, <<"m", "i", "n", "s">>, <<"m", "i", "n", "u", "t", "e">>, <<"m", "i", "n", "u", "t", "e", "s">>}
SecondWords == {<<"s">>, <<"s", "e", "c">>, <<"s", "e", "c", "s">>, <<"s", "e", "c", "o", "n", "d">>, <<"s", "e", "c", "o", "n", "d", "s">>}

\* (\d+)\s*<word>\b matches text from (1-based) position k, ignoring case:
\* the digits from k, the white space after them, a word, a word boundary.
DigitsEnd(text, k) ==
    CHOOSE e \in k..Len(text) :
        /\ \A j \in k..e : IsDigit(text[j])
        /\ e = Len(text) \/ ~IsDigit(text[e + 1])
SpaceEnd(text, e) ==
    CHOOSE p \in e..Len(text) :
        /\ \A j \in (e + 1)..p : IsSpace(text[j])
        /\ p = Len(text) \/ ~IsSpace(text[p + 1])
WordAt(text, p, words) ==
    \E w \in words :
        /\ OccursAt(Lower(text), w, p)
        /\ p + Len(w) = Len(text) \/ ~IsWord(text[p + Len(w) + 1])
MatchesAt(text, k, words) ==
    /\ IsDigit(text[k])
    /\ WordAt(text, SpaceEnd(text, DigitsEnd(text, k)), words)

\* re.search(pattern, text, re.IGNORECASE) and int(match.group(1)): the
\* number of the leftmost match, -1 when the pattern matches nowhere.
PatternValue(text, words) ==
    LET hits == {k \in DOMAIN text : MatchesAt(text, k, words)}
    IN  IF hits = {} THEN -1
        ELSE LET k == CHOOSE x \in hits : \A y \in hits : x <= y
             IN  IntOf(SubSeq(text, k, DigitsEnd(text, k)))

\* timedelta(days=v), timedelta(hours=v), ... as Python normalises them.
SecondsPerDay == 86400
Delta(unit, v) ==
    CASE unit = "days" -> [days |-> v, secs |-> 0]
      [] unit = "hours" -> [days |-> v \div 24, secs |-> (v % 24) * 3600]
      [] unit = "minutes" -> [days |-> v \div 1440, secs |-> (v % 1440) * 60]
      [] unit = "seconds" -> [days |-> v \div SecondsPerDay, secs |-> v % SecondsPerDay]
      [] unit = "now" -> [days |-> 0, secs |-> 0]

\* t - delta, not looking at the range of datetime.
Minus(t, delta) ==
    IF t.sec >= delta.secs
      THEN [day |-> t.day - delta.days, sec |-> t.sec - delta.secs]
      ELSE [day |-> t.day - delta.days - 1, sec |-> t.sec + SecondsPerDay - delta.secs]

\* t - delta raises OverflowError when the result is before datetime.min.
Overflows(t, delta) == Minus(t, delta).day < 0

\* Lines 536-553 trying the patterns in the order seconds, minutes, hours, days.
FirstMatch_Reversed(text) ==
    LET d == PatternValue(text, DayWords)
        h == PatternValue(text, HourWords)
        m == PatternValue(text, MinuteWords)
        s == PatternValue(text, SecondWords)
    IN  IF s # -1 THEN [unit |-> "seconds", value |-> s]
        ELSE IF m # -1 THEN [unit |-> "minutes", value |-> m]
        ELSE IF h # -1 THEN [unit |-> "hours", value |-> h]
        ELSE IF d # -1 THEN [unit |-> "days", value |-> d]
        ELSE IF Contains(Lower(text), <<"j", "u", "s", "t", " ", "n", "o", "w">>) THEN [unit |-> "now", value |-> 0]
        ELSE [unit |-> "none", value |-> 0]

\* Lines 526-553: the first pattern of the list that matches the text, and
\* the number it captured.
FirstMatch(text) ==
    LET d == PatternValue(text, DayWords)
        h == PatternValue(text, HourWords)
        m == PatternValue(text, MinuteWords)
        s == PatternValue(text, SecondWords)
    IN  IF d # -1 THEN [unit |-> "days", value |-> d]
        ELSE IF h # -1 THEN [unit |-> "hours", value |-> h]
        ELSE IF m # -1 THEN [unit |-> "minutes", value |-> m]
        ELSE IF s # -1 THEN [unit |-> "seconds", value |-> s]
        ELSE IF Contains(Lower(text), <<"j", "u", "s", "t", " ", "n", "o", "w">>) THEN [unit |-> "now", value |-> 0]
        ELSE [unit |-> "none", value |-> 0]

\* Lines 519-565: pub_date of block idx.  Without a match (557-560), and when
\* reading the text or the subtraction raises (562-565), it is the clock
\* minus idx days.
PubDate(b, idx) ==
    LET estimate == Minus(b.clock, Delta("days", idx))
        match == FirstMatch(b.full_text)
        delta == Delta(match.unit, match.value)
    IN  IF b.fails = "ts_text" \/ match.unit = "none" THEN estimate
        ELSE IF Overflows(b.clock, delta) THEN estimate
        ELSE Minus(b.clock, delta)

(***************************************************************************)
(* _extract_posts: one block (lines 216-596)                               *)
(***************************************************************************)

\* The scraper the model runs: self.page_name and self.page_url (lines 15-16).
PageName == <<"A", "c", "m", "e">>
PageUrl == <<"h", "t", "t", "p", "s", ":", "/", "/", "w", "w", "w", ".", "f", "a", "c", "e", "b", "o", "o", "k", ".", "c", "o", "m", "/", "a", "c", "m", "e">>

\* int(current_time.timestamp()) of line 576: the seconds since 1970-01-01,
\* which is day 719162 after datetime.min.
EpochSeconds(t) == (t.day - 719162) * SecondsPerDay + t.sec

\* Lines 572-581: the post object.  `link or page_url` takes the page URL
\* for a link that is None or empty.
PostObject(post_text, link, media, pub_date, idx, now) ==
    [title |-> TitleOf(post_text),
     description |-> post_text,
     link |-> IF Truthy(link) THEN link ELSE PageUrl,
     guid |-> IF Truthy(link) THEN link
              ELSE PageUrl \o <<"#">> \o StrOf(idx) \o <<"_">> \o StrOf(EpochSeconds(now)),
     pubDate |-> pub_date,
     image |-> media.image,
     video |-> media.video,
     media_type |-> media.media_type]

NoPost == [title |-> None]
Skipped(kind) == [kind |-> kind, post |-> NoPost]

\* Lines 217-596 if the handlers of lines 264, 513 and 562 were missing: every
\* call that raises ends in the handler of line 594.
ProcessArticle_NoInnerHandlers(b, idx) ==
    IF b.fails # "none" THEN Skipped("error")
    ELSE IF b.reply \/ AriaIsComment(b.aria_label) THEN Skipped("comment")
    ELSE LET post_text == BodyText(b, PageName)
         IN  IF Len(post_text) < MinBodyLen THEN Skipped("short")
             ELSE [kind |-> "post",
                   post |-> PostObject(post_text, LinkOf(b), ExtractMedia(b),
                                       PubDate(b, idx), idx, b.clock)]

\* Lines 217-596: what the loop body does with block b at index idx: skip it
\* as a comment (220-228), as too short (348), because a call raised outside
\* the inner handlers (594-596), or append a post.
ProcessArticle(b, idx) ==
    IF b.fails = "reply_query" THEN Skipped("error")
    ELSE IF b.reply THEN Skipped("comment")
    ELSE IF b.fails = "aria" THEN Skipped("error")
    ELSE IF AriaIsComment(b.aria_label) THEN Skipped("comment")
    ELSE IF b.fails = "msg_query" THEN Skipped("error")
    ELSE IF b.fails = "full_text" /\ MessageText(b.msgs) = Absent THEN Skipped("error")
    ELSE LET post_text == BodyText(b, PageName)
         IN  IF Len(post_text) < MinBodyLen THEN Skipped("short")
             ELSE IF b.fails = "link" THEN Skipped("error")
             ELSE [kind |-> "post",
                   post |-> PostObject(post_text, LinkOf(b), ExtractMedia(b),
                                       PubDate(b, idx), idx, b.clock)]

(***************************************************************************)
(* The content blocks of the model                                         *)
(***************************************************************************)

\* The bounds of the generated inputs: the longest generated time text, the
\* most img elements in a block, the largest index a single block is tried at.
MaxTextLen == 3
MaxImages == 2
MaxIndex == 2

\* The sequences over S of length at most n.
SeqsUpTo(S, n) == UNION {[1..k -> S] : k \in 0..n}

\* The clock while a block is processed: 2026-11-05 01:00:00 UTC.
Clock == [day |-> 739924, sec |-> 3600]

MessageBody == <<"H", "e", "l", "l", "o", " ", "w", "o", "r", "l", "d", "!">>

\* A text-only post whose body is found by the first message selector.
Plain ==
    [reply |-> FALSE, aria_label |-> None,
     msgs |-> <<MessageBody, Absent, Absent, Absent, Absent>>,
     full_text |-> <<"A", "c", "m", "e", "\n", "3", "h", "\n", "H", "e", "l", "l", "o", " ", "w", "o", "r", "l", "d", "!", "\n", "L", "i", "k", "e", "\n", "C", "o", "m", "m", "e", "n", "t">>,
     post_href |-> Absent, fb_hrefs |-> <<>>,
     video |-> FALSE, video_id |-> None, ytdlp |-> None, video_src |-> None,
     poster |-> None, feed_img |-> Absent, photo_img |-> Absent, images |-> <<>>,
     fails |-> "none", clock |-> Clock]

NoMessage == <<Absent, Absent, Absent, Absent, Absent>>

\* ---- image blocks
GoodImage == <<"h", "t", "t", "p", "s", ":", "/", "/", "c", "d", "n", "/", "a", ".", "j", "p", "g">>
GoodImage2 == <<"h", "t", "t", "p", "s", ":", "/", "/", "c", "d", "n", "/", "b", ".", "j", "p", "g">>
AvatarImage == <<"h", "t", "t", "p", "s", ":", "/", "/", "c", "d", "n", "/", "p", "5", "0", "x", "5", "0", "/", "m", "e", ".", "j", "p", "g">>
PreviewImage == <<"h", "t", "t", "p", "s", ":", "/", "/", "x", "/", "s", "a", "f", "e", "_", "i", "m", "a", "g", "e", ".", "p", "h", "p", "?", "u", "=", "1">>
Img(src, width, height, svg) == [src |-> src, width |-> width, height |-> height, svg |-> svg]
ImageSamples ==
    {Img(GoodImage, None, None, FALSE),
     Img(GoodImage2, <<"3", "0", "0">>, <<"2", "0", "0">>, FALSE),
     Img(AvatarImage, None, None, FALSE),
     Img(<<"h", "t", "t", "p", "s", ":", "/", "/", "c", "d", "n", "/", "e", "m", "o", "j", "i", ".", "p", "h", "p", "/", "1">>, <<"1", "6">>, <<"1", "6">>, FALSE),
     Img(<<"h", "t", "t", "p", "s", ":", "/", "/", "c", "d", "n", "/", "i", "c", "o", "n", ".", "p", "n", "g">>, <<"4", "0">>, <<"4", "0", "0">>, FALSE),
     Img(<<"h", "t", "t", "p", "s", ":", "/", "/", "c", "d", "n", "/", "o", "d", "d", ".", "p", "n", "g">>, <<"a", "u", "t", "o">>, <<"5", "0">>, FALSE),
     Img(<<"h", "t", "t", "p", "s", ":", "/", "/", "c", "d", "n", "/", "f", "a", "c", "e", ".", "j", "p", "g">>, None, None, TRUE),
     Img(<<"/", "r", "e", "l", ".", "p", "n", "g">>, None, None, FALSE),
     Img(None, None, None, FALSE)}
ImageBlocks ==
    {[Plain EXCEPT !.feed_img = f, !.photo_img = p, !.images = s, !.fails = x] :
        f \in {Absent, None, GoodImage, PreviewImage, <<"/", "r", "e", "l", ".", "p", "n", "g">>},
        p \in {Absent, GoodImage2, AvatarImage},
        s \in SeqsUpTo(ImageSamples, MaxImages),
        x \in {"none"}}
    \cup
    {[Plain EXCEPT !.feed_img = f, !.images = s, !.fails = x] :
        f \in {Absent, GoodImage},
        s \in SeqsUpTo({Img(GoodImage, None, None, FALSE),
                        Img(AvatarImage, None, None, FALSE)}, MaxImages),
        x \in {"video_query", "feed_img", "photo_img", "images", "svg"}}

\* ---- video blocks
DirectVideo == <<"h", "t", "t", "p", "s", ":", "/", "/", "v", "/", "a", ".", "m", "p", "4">>
ResolverOutputs ==
    {None, <<>>, DirectVideo, <<"h", "t", "t", "p", "s", ":", "/", "/", "v", "/", "a", ".", "w", "e", "b", "m", "\n", "h", "t", "t", "p", "s", ":", "/", "/", "v", "/", "b", ".", "m", "p", "4">>,
     <<"h", "t", "t", "p", "s", ":", "/", "/", "v", "/", "a", ".", "m", "3", "u", "8", "\n">>, <<"E", "R", "R", "O", "R", ":", " ", "n", "o", " ", "v", "i", "d", "e", "o">>, <<"n", "o", "t", "e", "\n", "h", "t", "t", "p", "s", ":", "/", "/", "v", "/", "d", ".", "w", "e", "b", "m">>,
     <<" ", " ", "h", "t", "t", "p", "s", ":", "/", "/", "v", "/", "c", ".", "w", "e", "b", "m">>}
VideoSources == {None, <<"b", "l", "o", "b", ":", "h", "t", "t", "p", "s", ":", "/", "/", "f", "b", "/", "1">>, <<"h", "t", "t", "p", "s", ":", "/", "/", "v", "/", "s", "r", "c", ".", "m", "p", "4">>, <<"/", "v", "/", "r", "e", "l", ".", "m", "p", "4">>}
VideoBlocks ==
    {[Plain EXCEPT !.video = TRUE, !.video_id = v, !.ytdlp = y, !.video_src = s,
                   !.poster = p, !.feed_img = f] :
        v \in {None, <<>>, <<"4", "2">>},
        y \in ResolverOutputs,
        s \in VideoSources,
        p \in {None, <<"h", "t", "t", "p", "s", ":", "/", "/", "c", "d", "n", "/", "p", "o", "s", "t", "e", "r", ".", "j", "p", "g">>, <<"/", "p", "o", "s", "t", "e", "r", ".", "j", "p", "g">>},
        f \in {Absent, None, GoodImage}}
    \cup
    {[Plain EXCEPT !.video = TRUE, !.video_id = v, !.ytdlp = y, !.video_src = s,
                   !.poster = p, !.feed_img = f, !.fails = x] :
        v \in {None, <<"4", "2">>},
        y \in {None, DirectVideo},
        s \in {None, <<"h", "t", "t", "p", "s", ":", "/", "/", "v", "/", "s", "r", "c", ".", "m", "p", "4">>},
        p \in {None, <<"h", "t", "t", "p", "s", ":", "/", "/", "c", "d", "n", "/", "p", "o", "s", "t", "e", "r", ".", "j", "p", "g">>},
        f \in {Absent, GoodImage},
        x \in {"video_query", "video_id", "video_src", "poster", "thumb"}}

\* ---- comments and other blocks that are skipped
AriaLabels ==
    {None, <<>>, <<"C", "o", "m", "m", "e", "n", "t", " ", "b", "y", " ", "B", "o", "b">>, <<"a", " ", "c", "o", "m", "m", "e", "n", "t">>, <<"C", "O", "M", "M", "E", "N", "T", "S">>, <<"P", "o", "s", "t", " ", "b", "y", " ", "A", "c", "m", "e">>,
     <<"C", "o", "m", " ", "m", "e", "n", "t">>}
LinkedPost == [Plain EXCEPT !.post_href = <<"/", "a", "c", "m", "e", "/", "p", "o", "s", "t", "s", "/", "1", "1", "?", "x", "=", "1">>]
VideoPost == [Plain EXCEPT !.video = TRUE, !.video_id = <<"4", "2">>, !.ytdlp = DirectVideo]
ImagePost == [Plain EXCEPT !.feed_img = GoodImage]
ShortPost == [Plain EXCEPT !.msgs = NoMessage, !.full_text = <<"A", "c", "m", "e", "\n", "3", "h", "\n", "H", "i", "\n", "L", "i", "k", "e">>]
FallbackPost == [Plain EXCEPT !.msgs = NoMessage,
                              !.full_text = <<"H", "e", "l", "l", "o", " ", "w", "o", "r", "l", "d", "!", " ", "A", "l", "l", " ", "r", "e", "a", "c", "t", "i", "o", "n", "s", ":", " ", "1", "2", " ", "C", "o", "m", "m", "e", "n", "t", "s">>]
\* Two posts whose only anchors are permalink.php links with different story
\* identifiers.
PermalinkFirst ==
    [Plain EXCEPT !.msgs = <<<<"F", "i", "r", "s", "t", " ", "n", "o", "t", "i", "c", "e", " ", "o", "f", " ", "t", "h", "e", " ", "w", "e", "e", "k">>, Absent, Absent, Absent, Absent>>,
                  !.fb_hrefs = <<<<"h", "t", "t", "p", "s", ":", "/", "/", "w", "w", "w", ".", "f", "a", "c", "e", "b", "o", "o", "k", ".", "c", "o", "m", "/", "p", "e", "r", "m", "a", "l", "i", "n", "k", ".", "p", "h", "p", "?", "s", "t", "o", "r", "y", "_", "f", "b", "i", "d", "=", "1", "0", "1", "&", "i", "d", "=", "9">>>>]
PermalinkSecond ==
    [Plain EXCEPT !.msgs = <<<<"S", "e", "c", "o", "n", "d", " ", "n", "o", "t", "i", "c", "e", " ", "o", "f", " ", "t", "h", "e", " ", "w", "e", "e", "k">>, Absent, Absent, Absent, Absent>>,
                  !.fb_hrefs = <<<<"h", "t", "t", "p", "s", ":", "/", "/", "w", "w", "w", ".", "f", "a", "c", "e", "b", "o", "o", "k", ".", "c", "o", "m", "/", "p", "e", "r", "m", "a", "l", "i", "n", "k", ".", "p", "h", "p", "?", "s", "t", "o", "r", "y", "_", "f", "b", "i", "d", "=", "1", "0", "2", "&", "i", "d", "=", "9">>>>]
BaseBlocks == {Plain, LinkedPost, VideoPost, ImagePost, ShortPost, FallbackPost}
ClassifiedBlocks ==
    {[b EXCEPT !.reply = r, !.aria_label = a, !.fails = x] :
        b \in BaseBlocks, r \in BOOLEAN, a \in AriaLabels,
        x \in {"none", "reply_query", "aria", "expand", "msg_query", "full_text", "link"}}

\* ---- blocks with a relative time in their text
TimeChars == {"2", "d", "h", "m", "s", " ", "x"}
TimeSamples ==
    {<<"J", "u", "s", "t", " ", "n", "o", "w">>, <<"J", "U", "S", "T", " ", "N", "O", "W">>, <<"5", " ", "d", "a", "y", "s", " ", "a", "g", "o">>, <<"1", " ", "h", "r">>, <<"3", " ", "M", "i", "n", "s">>, <<"7", "s", "e", "c", "s">>,
     <<"2", "h", " ", "1", "d">>, <<"1", "d", " ", "2", "h">>, <<"9", "s", " ", "4", "m">>, <<"3", " ", "d", "o", "g", "s">>, <<"0", "d">>, <<"1", "2", " ", "h", "o", "u", "r", "s">>, <<"1", ".", "5", "h">>,
     <<"9", "9", "9", "9", "9", "9", "d">>, <<"2", "0", "0", "0", "0", "0", "0", "0", "h">>, <<"7", "4", "0", "0", "0", "0", " ", "D">>, <<"7", "3", "9", "9", "2", "4", "d">>, <<"7", "3", "9", "9", "2", "5", "d">>}
TimeTexts == SeqsUpTo(TimeChars, MaxTextLen) \cup TimeSamples
TimeBlocks ==
    {[Plain EXCEPT !.full_text = t \o <<"\n">> \o MessageBody, !.fails = x] :
        t \in TimeTexts, x \in {"none", "ts_text"}}

\* ---- blocks whose body comes from a message element or from the whole text
MaxLines == 3
LineSamples ==
    {<<"A", "c", "m", "e">>, <<"H", "e", "l", "l", "o", " ", "w", "o", "r", "l", "d", "!">>, <<"L", "i", "k", "e">>, <<>>, <<"A", "l", "l", " ", "r", "e", "a", "c", "t", "i", "o", "n", "s", ":", " ", "1", "2">>,
     <<"5", " ", "c", "o", "m", "m", "e", "n", "t", "s">>, <<"a", "b", "c", "d", "1">>, <<"a", "1", " ">>}
MessageSamples ==
    {<<"H", "e", "l", "l", "o", " ", " ", " ", "b", "i", "g", "\n", "w", "o", "r", "l", "d", "!", "!">>, <<"A", "c", "m", "e", " ", " ", " ", " ", " ", " ", " ", " ", " ", " ", "x">>, <<" ", "A", "c", "m", "e", ":", " ", "2", " ", "n", "e", "w", " ", "o", "f", "f", "e", "r", "s", " ">>, <<"s", "h", "o", "r", "t", " ", "m", "s", "g">>}
TextBlocks ==
    {[Plain EXCEPT !.msgs = <<Absent, Absent, Absent, Absent, Absent>>,
                   !.full_text = Join(lines, <<"\n">>)] :
        lines \in SeqsUpTo(LineSamples, MaxLines)}
    \cup
    {[Plain EXCEPT !.msgs = <<first, second, Absent, Absent, Absent>>,
                   !.full_text = text] :
        first \in MessageSamples \cup {Absent}, second \in MessageSamples \cup {Absent},
        text \in {Plain.full_text, <<"3", "h", "\n", " ", "H", "i", " ", " ", "t", "h", "e", "r", "e", " ", "\n", "2", " ", "s", "h", "a", "r", "e", "s">>}}
    \cup {FallbackPost, ShortPost}

\* The families of blocks a run may draw from.
Fixtures == {"classified", "images", "videos", "times", "texts"}
Universe(f) ==
    CASE f = "classified" -> ClassifiedBlocks
      [] f = "images" -> ImageBlocks
      [] f = "videos" -> VideoBlocks
      [] f = "times" -> TimeBlocks
      [] f = "texts" -> TextBlocks
      [] f = "page" -> BaseBlocks \cup
                        {PermalinkFirst, PermalinkSecond,
                         [Plain EXCEPT !.reply = TRUE],
                         [Plain EXCEPT !.aria_label = <<"C", "o", "m", "m", "e", "n", "t", " ", "b", "y", " ", "B", "o", "b">>],
                         [Plain EXCEPT !.fails = "link"],
                         [Plain EXCEPT !.fails = "msg_query"],
                         [Plain EXCEPT !.fails = "expand"],
                         [Plain EXCEPT !.fails = "ts_text"],
                         [VideoPost EXCEPT !.fails = "video_id"],
                         [ImagePost EXCEPT !.fails = "feed_img"],
                         [VideoPost EXCEPT !.ytdlp = None],
                         [VideoPost EXCEPT !.video_id = None],
                         [Plain EXCEPT !.full_text = <<"A", "c", "m", "e", "\n", "2", " ", "d", "a", "y", "s", " ", "a", "g", "o", "\n", "H", "e", "l", "l", "o", " ", "w", "o", "r", "l", "d", "!">>],
                         [LinkedPost EXCEPT !.post_href = <<"h", "t", "t", "p", "s", ":", "/", "/", "w", "w", "w", ".", "f", "a", "c", "e", "b", "o", "o", "k", ".", "c", "o", "m", "/", "a", "c", "m", "e", "/", "p", "o", "s", "t", "s", "/", "1", "2">>]}

(***************************************************************************)
(* _extract_posts: the loop (lines 207-598)                                *)
(***************************************************************************)

\* max_posts as main() passes it (line 713), and as the model's pages pass it.
MaxPostsMain == 25
MaxScan == 2

Min(a, b) == IF a < b THEN a ELSE b

\* SpecExtract: a whole call on a page of at most MaxScan + 1 blocks.
InitExtract ==
    /\ pc = "ex_query"
    /\ fixture = "page"
    /\ n_articles = 0
    /\ max_posts = MaxScan
    /\ i = 0
    /\ article = <<>>
    /\ last_kind = "none"
    /\ posts = <<>>
    /\ HbStart
    /\ ScStart
    /\ RsStart
    /\ MnStart

\* One block of the families F, met at any index up to MaxIndex: the call
\* has skipped the blocks before it and this block is the last of the page.
InitArticle(F) ==
    /\ pc = "ex_loop"
    /\ fixture \in F
    /\ i \in 0..MaxIndex
    /\ n_articles = i + 1
    /\ max_posts = MaxPostsMain
    /\ article = <<>>
    /\ last_kind = "none"
    /\ posts = <<>>
    /\ HbStart
    /\ ScStart
    /\ RsStart
    /\ MnStart

\* Lines 209-214: query the blocks of the page; the query is outside every
\* try of _extract_posts, so what it raises leaves the call.
EX_Query ==
    /\ pc = "ex_query"
    /\ \/ \E n \in 0..(MaxScan + 1) :
            /\ n_articles' = n
            /\ pc' = "ex_loop"
       \/ /\ pc' = "ex_raised"
          /\ UNCHANGED n_articles
    /\ UNCHANGED <<fixture, max_posts, i, article, last_kind, posts>>
    /\ UNCHANGED notEx

\* Lines 216-596: one turn of the loop over articles[:max_posts].
EX_Article ==
    /\ pc = "ex_loop"
    /\ i < Min(n_articles, max_posts)
    /\ \E b \in Universe(fixture) :
         LET done == ProcessArticle(b, i)
         IN  /\ article' = b
             /\ last_kind' = done.kind
             /\ posts' = IF done.kind = "post" THEN Append(posts, done.post) ELSE posts
    /\ i' = i + 1
    /\ UNCHANGED <<pc, fixture, n_articles, max_posts>>
    /\ UNCHANGED notEx

\* Line 598: return posts.
EX_Return ==
    /\ pc = "ex_loop"
    /\ i = Min(n_articles, max_posts)
    /\ pc' = "ex_done"
    /\ UNCHANGED exVars
    /\ UNCHANGED notEx

NextExtract ==
    \/ EX_Query
    \/ EX_Article
    \/ EX_Return

SpecExtract == InitExtract /\ [][NextExtract]_vars

InitComments == InitArticle({"classified"})
InitVideos == InitArticle({"videos"})
InitImages == InitArticle({"images"})
InitMedia == InitArticle({"videos", "images"})
InitTimes == InitArticle({"times"})

NextArticle ==
    \/ EX_Article
    \/ EX_Return

SpecComments == InitComments /\ [][NextArticle]_vars
SpecVideos == InitVideos /\ [][NextArticle]_vars
SpecImages == InitImages /\ [][NextArticle]_vars
SpecMedia == InitMedia /\ [][NextArticle]_vars
SpecTimes == InitTimes /\ [][NextArticle]_vars

\* One block of the text family, at index 0.
InitTexts ==
    /\ pc = "ex_loop"
    /\ fixture = "texts"
    /\ i = 0
    /\ n_articles = 1
    /\ max_posts = MaxPostsMain
    /\ article = <<>>
    /\ last_kind = "none"
    /\ posts = <<>>
    /\ HbStart
    /\ ScStart
    /\ RsStart
    /\ MnStart

SpecTexts == InitTexts /\ [][NextArticle]_vars

\* The post appended for the block processed last.
LastPost == posts[Len(posts)]

(***************************************************************************)
(* Properties of one block                                                 *)
(***************************************************************************)

\* The accessible label mentions "comment", in any case.
CommentWord == <<"c", "o", "m", "m", "e", "n", "t">>
LabelMentionsComment(label) ==
    /\ label # None
    /\ \E k \in 0..(Len(label) - Len(CommentWord)) :
          \A j \in DOMAIN CommentWord : LowerChar(label[k + j]) = CommentWord[j]

\* The block is a comment: its reply affordance was found, or its label was
\* read and mentions "comment".
IsCommentBlock(b) ==
    \/ b.fails # "reply_query" /\ b.reply
    \/ b.fails \notin {"reply_query", "aria"} /\ LabelMentionsComment(b.aria_label)

\* C1: a turn of the loop on a block that holds a reply affordance, or whose
\* aria-label contains "comment" in any case, appends no post, whatever the
\* text, the media, the link and the index of the block.
C1_CommentsNeverEmitted ==
    [][(pc = "ex_loop" /\ i' = i + 1 /\ IsCommentBlock(article')) => posts' = posts]_vars

\* A block labelled "Comment by Bob", with no reply affordance and with the
\* body, link and image of a post, was skipped as a comment.
C1_Witness ==
    /\ last_kind = "comment"
    /\ ~article.reply
    /\ article.aria_label = <<"C", "o", "m", "m", "e", "n", "t", " ", "b", "y", " ", "B", "o", "b">>
    /\ MessageText(article.msgs) = MessageBody
    /\ article.feed_img = GoodImage
    /\ i = MaxIndex + 1
    /\ posts = <<>>

\* The video identifier was extracted, or the src of the video element was
\* read and is an http URL that is not a blob: URL.
IdExtracted(b) == b.fails # "video_id" /\ Truthy(b.video_id)
SrcUsable(b) ==
    /\ b.fails \notin {"video_id", "video_src"}
    /\ Truthy(b.video_src)
    /\ StartsWith(b.video_src, <<"h", "t", "t", "p">>)
    /\ ~StartsWith(b.video_src, <<"b", "l", "o", "b", ":">>)

C3_MediaExclusive ==
    /\ \A k \in DOMAIN posts :
          /\ posts[k].media_type \in {None, VideoType, ImageType}
          /\ posts[k].media_type = ImageType =>
                Truthy(posts[k].image) /\ posts[k].video = None
          /\ posts[k].video # None => posts[k].media_type = VideoType
    /\ (last_kind = "post" /\ article.fails # "video_query" /\ article.video) =>
          LastPost.media_type = VideoType

\* A block with a video element and a feed image: the post is a video, the
\* image is its thumbnail.
C3_Witness ==
    /\ last_kind = "post"
    /\ article.video
    /\ article.feed_img = GoodImage
    /\ LastPost.media_type = VideoType
    /\ LastPost.image = GoodImage
    /\ LastPost.video # None

\* The block holds an img that passes every filter of the scan.
HasQualifyingImage(b) ==
    \E k \in DOMAIN b.images : PassesFilters(b.images[k]) /\ ~b.images[k].svg

\* C4 as stated: the image of a post that is not a video, made from a block
\* holding a qualifying image, contains no noise pattern.
C4_NoNoiseImage ==
    (/\ last_kind = "post"
     /\ LastPost.media_type # VideoType
     /\ HasQualifyingImage(article)) =>
        ~(Truthy(LastPost.image) /\ IsNoise(LastPost.image))

\* The magnitude of the first pattern, in the order days, hours, minutes,
\* seconds, that matches the text; "now" for Just now, "none" without match.
TimeUnits == <<"days", "hours", "minutes", "seconds">>
WordsOf(unit) ==
    CASE unit = "days" -> DayWords
      [] unit = "hours" -> HourWords
      [] unit = "minutes" -> MinuteWords
      [] unit = "seconds" -> SecondWords
Matched(text, n) == PatternValue(text, WordsOf(TimeUnits[n])) # -1
Winner(text) ==
    IF \E n \in DOMAIN TimeUnits : Matched(text, n)
      THEN CHOOSE n \in DOMAIN TimeUnits :
               Matched(text, n) /\ \A m \in 1..(n - 1) : ~Matched(text, m)
      ELSE 0
SaysJustNow(text) ==
    \E k \in 0..(Len(text) - 8) :
        \A j \in 1..8 : LowerChar(text[k + j]) = (<<"j", "u", "s", "t", " ", "n", "o", "w">>)[j]
Magnitude(text) ==
    LET n == Winner(text)
    IN  Delta(TimeUnits[n], PatternValue(text, WordsOf(TimeUnits[n])))
Estimate(b, idx) == [day |-> b.clock.day - idx, sec |-> b.clock.sec]

\* C8 as stated: the date of a post is the clock minus the magnitude of the
\* winning pattern, the clock for Just now, and the clock minus i days only
\* when nothing matches or reading the text raises.
C8_DateFromFirstPattern ==
    last_kind = "post" =>
        LET text == article.full_text
            idx == i - 1
        IN  LastPost.pubDate =
              IF article.fails = "ts_text" THEN Estimate(article, idx)
              ELSE IF Winner(text) # 0 THEN Minus(article.clock, Magnitude(text))
              ELSE IF SaysJustNow(text) THEN article.clock
              ELSE Estimate(article, idx)

\* C8, amended: as stated, and the date is also the clock minus i days when
\* the subtraction raises because the magnitude reaches before the first
\* day of datetime.  The date is always a time of the datetime range, not
\* after the clock.
C8_DateFromFirstPatternInRange ==
    last_kind = "post" =>
        LET text == article.full_text
            idx == i - 1
        IN  /\ LastPost.pubDate.day \in 0..article.clock.day
            /\ LastPost.pubDate.sec \in 0..(SecondsPerDay - 1)
            /\ LastPost.pubDate =
                 IF article.fails = "ts_text" THEN Estimate(article, idx)
                 ELSE IF Winner(text) # 0
                   THEN IF Minus(article.clock, Magnitude(text)).day < 0
                          THEN Estimate(article, idx)
                          ELSE Minus(article.clock, Magnitude(text))
                 ELSE IF SaysJustNow(text) THEN article.clock
                 ELSE Estimate(article, idx)

\* The text "2h 1d" at index 2: the days pattern wins over the hours
\* expression that comes first.
C8_Witness ==
    /\ last_kind = "post"
    /\ article.fails # "ts_text"
    /\ article.full_text = <<"2", "h", " ", "1", "d", "\n">> \o MessageBody
    /\ i = 3
    /\ LastPost.pubDate = [day |-> Clock.day - 1, sec |-> Clock.sec]

\* No white space other than single spaces between words.
IsNormalized(text) ==
    /\ \A k \in DOMAIN text : text[k] \notin {"\n", "\t"}
    /\ \A k \in 1..(Len(text) - 1) : ~(text[k] = " " /\ text[k + 1] = " ")
    /\ text # <<>> => text[1] # " " /\ text[Len(text)] # " "

\* The block processed last, processed again at another index and one hour
\* later.
ProcessedAgain ==
    ProcessArticle([article EXCEPT !.clock = [day |-> Clock.day, sec |-> Clock.sec + 3600]],
                   i + 1)

\* C16: every post has a description of at least 5 characters, with its
\* white space normalized; a block whose cleaned body is shorter appends no
\* post; and processing the same block again gives the same outcome and the
\* same body.
C16_BodyAtLeastFive ==
    /\ \A k \in DOMAIN posts :
          Len(posts[k].description) >= 5 /\ IsNormalized(posts[k].description)
    /\ last_kind = "short" => posts = <<>>
    /\ (last_kind # "none" /\ Len(BodyText(article, PageName)) < 5) => posts = <<>>
    /\ last_kind # "none" =>
          /\ ProcessedAgain.kind = last_kind
          /\ last_kind = "post" => ProcessedAgain.post.description = LastPost.description

\* The message "Hello   big\nworld!!" gave the body "Hello big world!!", and
\* so it does when the block is processed again.
C16_Witness ==
    /\ last_kind = "post"
    /\ article.msgs[1] = <<"H", "e", "l", "l", "o", " ", " ", " ", "b", "i", "g", "\n", "w", "o", "r", "l", "d", "!", "!">>
    /\ LastPost.description = <<"H", "e", "l", "l", "o", " ", "b", "i", "g", " ", "w", "o", "r", "l", "d", "!", "!">>
    /\ ProcessedAgain.post.description = <<"H", "e", "l", "l", "o", " ", "b", "i", "g", " ", "w", "o", "r", "l", "d", "!", "!">>

\* The footer markers and the fallback body, as a description of the result:
\* the text before the first position where a marker starts, its lines
\* stripped, without those that are empty, UI phrases, or shorter than 5
\* characters with a digit.
StatedMarkers ==
    {<<"A", "l", "l", " ", "r", "e", "a", "c", "t", "i", "o", "n", "s", ":">>, <<"V", "i", "e", "w", " ", "m", "o", "r", "e", " ", "c", "o", "m", "m", "e", "n", "t", "s">>, <<"W", "r", "i", "t", "e", " ", "a", " ", "c", "o", "m", "m", "e", "n", "t">>, <<"M", "o", "s", "t", " ", "r", "e", "l", "e", "v", "a", "n", "t">>,
     <<"V", "i", "e", "w", " ", "a", "l", "l">>, <<"r", "e", "p", "l", "i", "e", "s">>, <<"s", "h", "a", "r", "e", "s">>, <<"c", "o", "m", "m", "e", "n", "t", "s">>}
MarkerAt(text, k) ==
    \E m \in StatedMarkers : k + Len(m) <= Len(text) /\ SubSeq(text, k + 1, k + Len(m)) = m
BeforeFooter(text) ==
    LET cut == CHOOSE c \in 0..Len(text) :
                   /\ \A k \in 0..(c - 1) : ~MarkerAt(text, k)
                   /\ c = Len(text) \/ MarkerAt(text, c)
    IN  SubSeq(text, 1, cut)
IsDroppedLine(line) ==
    \/ line = <<>>
    \/ line \in SkipPhrases
    \/ Len(line) < 5 /\ \E k \in DOMAIN line : line[k] \in Range(Digits)
KeptLines(text) ==
    LET lines == SplitOn(BeforeFooter(text), "\n")
        Kept(n) == {k \in 1..n : ~IsDroppedLine(Strip(lines[k]))}
    IN  [r \in 1..Cardinality(Kept(Len(lines))) |->
            Strip(lines[CHOOSE k \in Kept(Len(lines)) : Cardinality(Kept(k)) = r])]

\* The block was read through the fallback: no message element qualified.
UsedFallback(b) == \A k \in DOMAIN b.msgs : b.msgs[k] = Absent \/ Len(Strip(b.msgs[k])) <= 10

\* C17: in the fallback, the description of the post is made of the kept
\* lines of the text before the earliest footer marker (with the white space
\* normalized and the page name dropped from the start); the text
\* "Hello world! All reactions: 12 Comments" gives "Hello world!".
C17_FallbackBody ==
    (last_kind = "post" /\ UsedFallback(article)) =>
        /\ LastPost.description =
              StripPageName(NormalizeSpace(Join(KeptLines(article.full_text), <<"\n">>)), PageName)
        /\ article.full_text = <<"H", "e", "l", "l", "o", " ", "w", "o", "r", "l", "d", "!", " ", "A", "l", "l", " ", "r", "e", "a", "c", "t", "i", "o", "n", "s", ":", " ", "1", "2", " ", "C", "o", "m", "m", "e", "n", "t", "s">> =>
              LastPost.description = <<"H", "e", "l", "l", "o", " ", "w", "o", "r", "l", "d", "!">>

\* The block whose text is "Hello world! All reactions: 12 Comments" gave a
\* post described "Hello world!".
C17_Witness ==
    /\ last_kind = "post"
    /\ UsedFallback(article)
    /\ article.full_text = <<"H", "e", "l", "l", "o", " ", "w", "o", "r", "l", "d", "!", " ", "A", "l", "l", " ", "r", "e", "a", "c", "t", "i", "o", "n", "s", ":", " ", "1", "2", " ", "C", "o", "m", "m", "e", "n", "t", "s">>
    /\ LastPost.description = <<"H", "e", "l", "l", "o", " ", "w", "o", "r", "l", "d", "!">>

(***************************************************************************)
(* generate_rss (lines 623-679)                                            *)
(***************************************************************************)

\* a is a later time than b.
Later(a, b) == a.day > b.day \/ (a.day = b.day /\ a.sec > b.sec)

\* Line 627: sorted(posts, key=pubDate, reverse=True).  The sort is stable:
\* posts of equal date keep the order of the argument.
SortedByDate_Ascending(unsorted) ==
    LET Rank(k) == Cardinality({j \in DOMAIN unsorted :
                       \/ Later(unsorted[k].pubDate, unsorted[j].pubDate)
                       \/ unsorted[j].pubDate = unsorted[k].pubDate /\ j <= k})
    IN  [r \in DOMAIN unsorted |-> unsorted[CHOOSE k \in DOMAIN unsorted : Rank(k) = r]]

SortedByDate(unsorted) ==
    LET Rank(k) == Cardinality({j \in DOMAIN unsorted :
                       \/ Later(unsorted[j].pubDate, unsorted[k].pubDate)
                       \/ unsorted[j].pubDate = unsorted[k].pubDate /\ j <= k})
    IN  [r \in DOMAIN unsorted |-> unsorted[CHOOSE k \in DOMAIN unsorted : Rank(k) = r]]

\* The enclosure types of lines 655, 661-663 and 670.
ImageJpeg == <<"i", "m", "a", "g", "e", "/", "j", "p", "e", "g">>
VideoMp4 == <<"v", "i", "d", "e", "o", "/", "m", "p", "4">>
MpegUrl == <<"a", "p", "p", "l", "i", "c", "a", "t", "i", "o", "n", "/", "x", "-", "m", "p", "e", "g", "U", "R", "L">>

NoEnclosure == [url |-> None, type |-> None]
NoMarkup == [kind |-> "none", url |-> None, type |-> None, image |-> None]

\* Lines 648-673 if line 663 were missing: every direct video is video/mp4.
MediaOf_AlwaysMp4(post) ==
    IF post.media_type = VideoType /\ Truthy(post.video)
      THEN IF Contains(post.video, <<"f", "a", "c", "e", "b", "o", "o", "k", ".", "c", "o", "m", "/", "w", "a", "t", "c", "h">>)
             THEN [enclosure |-> IF Truthy(post.image)
                                   THEN [url |-> post.image, type |-> ImageJpeg]
                                   ELSE NoEnclosure,
                   markup |-> [kind |-> "anchor", url |-> post.video, type |-> None,
                               image |-> IF Truthy(post.image) THEN post.image ELSE None]]
             ELSE [enclosure |-> [url |-> post.video, type |-> VideoMp4],
                   markup |-> [kind |-> "player", url |-> post.video, type |-> VideoMp4,
                               image |-> IF Truthy(post.image) THEN post.image ELSE None]]
    ELSE IF post.media_type = ImageType /\ Truthy(post.image)
      THEN [enclosure |-> [url |-> post.image, type |-> ImageJpeg],
            markup |-> [kind |-> "img", url |-> post.image, type |-> None, image |-> post.image]]
    ELSE [enclosure |-> NoEnclosure, markup |-> NoMarkup]

\* Lines 648-673: the enclosure of the entry and the markup appended to its
\* description ("anchor": the link to the watch page, with the thumbnail
\* when image is set; "player": the video tag, with its poster when image is
\* set; "img": the image tag).
MediaOf(post) ==
    IF post.media_type = VideoType /\ Truthy(post.video)
      THEN IF Contains(post.video, <<"f", "a", "c", "e", "b", "o", "o", "k", ".", "c", "o", "m", "/", "w", "a", "t", "c", "h">>)
             THEN [enclosure |-> IF Truthy(post.image)
                                   THEN [url |-> post.image, type |-> ImageJpeg]
                                   ELSE NoEnclosure,
                   markup |-> [kind |-> "anchor", url |-> post.video, type |-> None,
                               image |-> IF Truthy(post.image) THEN post.image ELSE None]]
             ELSE LET mime_type == IF Contains(post.video, <<".", "m", "3", "u", "8">>) THEN MpegUrl ELSE VideoMp4
                  IN  [enclosure |-> [url |-> post.video, type |-> mime_type],
                       markup |-> [kind |-> "player", url |-> post.video, type |-> mime_type,
                                   image |-> IF Truthy(post.image) THEN post.image ELSE None]]
    ELSE IF post.media_type = ImageType /\ Truthy(post.image)
      THEN [enclosure |-> [url |-> post.image, type |-> ImageJpeg],
            markup |-> [kind |-> "img", url |-> post.image, type |-> None, image |-> post.image]]
    ELSE [enclosure |-> NoEnclosure, markup |-> NoMarkup]

\* Lines 640-673: the entry made from a post.
EntryOf(post) ==
    [id |-> post.guid,
     title |-> post.title,
     description |-> post.description,
     link |-> post.link,
     guid |-> post.guid,
     published |-> post.pubDate,
     enclosure |-> MediaOf(post).enclosure,
     markup |-> MediaOf(post).markup]

\* The posts generate_rss is called with: posts made by _extract_posts, with
\* equal and different dates, identified by a link or by their index, and with
\* every kind of media.
MaxRssPosts == 3
RssBlocks ==
    {Plain, LinkedPost, ImagePost, VideoPost,
     [VideoPost EXCEPT !.ytdlp = None, !.poster = GoodImage],
     [VideoPost EXCEPT !.ytdlp = None],
     [VideoPost EXCEPT !.ytdlp = <<"h", "t", "t", "p", "s", ":", "/", "/", "v", "/", "a", ".", "m", "3", "u", "8", "\n">>],
     [VideoPost EXCEPT !.video_id = None]}
RssSamples ==
    {ProcessArticle(b, 0).post : b \in RssBlocks} \cup
    {ProcessArticle(Plain, 1).post} \cup
    {ProcessArticle(FallbackPost, n).post : n \in 0..2}

InitRss ==
    /\ pc = "rs_begin"
    /\ rss_posts \in SeqsUpTo(RssSamples, MaxRssPosts)
    /\ sorted_posts = <<>>
    /\ entries = <<>>
    /\ feed_written = FALSE
    /\ rss_caught = FALSE
    /\ HbStart
    /\ ScStart
    /\ ExStart
    /\ MnStart

\* Lines 627-637: sort the posts and start the feed.
RS_Begin ==
    /\ pc = "rs_begin"
    /\ sorted_posts' = SortedByDate(rss_posts)
    /\ pc' = "rs_entries"
    /\ UNCHANGED <<rss_posts, entries, feed_written, rss_caught>>
    /\ UNCHANGED notRs

\* Lines 639-673: add the entry of the next post of sorted_posts.
RS_Entry ==
    /\ pc = "rs_entries"
    /\ Len(entries) < Len(sorted_posts)
    /\ entries' = Append(entries, EntryOf(sorted_posts[Len(entries) + 1]))
    /\ UNCHANGED <<pc, rss_posts, sorted_posts, feed_written, rss_caught>>
    /\ UNCHANGED notRs

\* Lines 675-677: write the document; writing the file may raise.
RS_Write ==
    /\ pc = "rs_entries"
    /\ Len(entries) = Len(sorted_posts)
    /\ \/ /\ feed_written' = TRUE
          /\ pc' = "rs_done"
       \/ /\ pc' = "rs_handler"
          /\ UNCHANGED feed_written
    /\ UNCHANGED <<rss_posts, sorted_posts, entries, rss_caught>>
    /\ UNCHANGED notRs

\* Lines 678-679: the handler of generate_rss only reports.
RS_Handler ==
    /\ pc = "rs_handler"
    /\ rss_caught' = TRUE
    /\ pc' = "rs_done"
    /\ UNCHANGED <<rss_posts, sorted_posts, entries, feed_written>>
    /\ UNCHANGED notRs

NextRss ==
    \/ RS_Begin
    \/ RS_Entry
    \/ RS_Write
    \/ RS_Handler

SpecRss == InitRss /\ [][NextRss]_vars

\* How many times the post data of entry e is among the posts, and among
\* the entries.
SameData(e, post) ==
    /\ e.id = post.guid /\ e.guid = post.guid
    /\ e.title = post.title /\ e.link = post.link
    /\ e.published = post.pubDate
TimesGiven(e) == Cardinality({k \in DOMAIN rss_posts : SameData(e, rss_posts[k])})
TimesAdded(e) ==
    Cardinality({k \in DOMAIN entries :
                    SameData(e, [guid |-> entries[k].guid, title |-> entries[k].title,
                                 link |-> entries[k].link, pubDate |-> entries[k].published])})

\* C9: the entries are added in descending order of date: no entry is later
\* than the entry added before it (so it is earlier when the dates differ);
\* and once all are added, each post of the argument has been added as many
\* times as it occurs in the argument, and nothing else.
C9_EntriesDescending ==
    /\ \A k \in 1..(Len(entries) - 1) :
          /\ ~Later(entries[k + 1].published, entries[k].published)
          /\ entries[k + 1].published # entries[k].published =>
                Later(entries[k].published, entries[k + 1].published)
    /\ pc \in {"rs_done", "rs_handler"} =>
          /\ Len(entries) = Len(rss_posts)
          /\ \A k \in DOMAIN entries : TimesAdded(entries[k]) = TimesGiven(entries[k])

\* Three posts given in ascending order of date, one day apart, were added
\* in the opposite order and the document was written.
C9_Witness ==
    /\ pc = "rs_done"
    /\ feed_written
    /\ Len(rss_posts) = 3
    /\ \A k \in 1..3 : rss_posts[k].pubDate = [day |-> Clock.day - (3 - k), sec |-> Clock.sec]
    /\ \A k \in 1..3 : entries[k].published = [day |-> Clock.day - (k - 1), sec |-> Clock.sec]

\* The media of a post, as the feed sees it.
HasImage(post) == post.image # None /\ post.image # <<>>
IsWatchVideo(post) ==
    /\ post.media_type = VideoType /\ post.video # None /\ post.video # <<>>
    /\ \E k \in 0..(Len(post.video) - 18) :
          SubSeq(post.video, k + 1, k + 18) = <<"f", "a", "c", "e", "b", "o", "o", "k", ".", "c", "o", "m", "/", "w", "a", "t", "c", "h">>
IsDirectVideo(post) ==
    /\ post.media_type = VideoType /\ post.video # None /\ post.video # <<>>
    /\ ~IsWatchVideo(post)
IsPlaylist(url) == \E k \in 0..(Len(url) - 5) : SubSeq(url, k + 1, k + 5) = <<".", "m", "3", "u", "8">>

\* C14: the entry of each post has the enclosure and the markup its media
\* fields ask for: a video with a watch URL has the thumbnail as image/jpeg
\* enclosure only when it has an image, and an anchor to the watch URL; a
\* video with any other URL has the URL as enclosure, of type video/mp4, or
\* application/x-mpegURL when the URL contains .m3u8, and a player; an image
\* post has the image as image/jpeg enclosure and an image tag; a post
\* without media has no enclosure and its description as it was.
C14_EnclosureByMedia ==
    \A k \in DOMAIN entries :
        LET e == entries[k]
            post == sorted_posts[k]
        IN  /\ IsWatchVideo(post) =>
                  /\ e.enclosure = IF HasImage(post)
                                     THEN [url |-> post.image, type |-> ImageJpeg]
                                     ELSE NoEnclosure
                  /\ e.markup.kind = "anchor" /\ e.markup.url = post.video
                  /\ e.markup.image = IF HasImage(post) THEN post.image ELSE None
            /\ IsDirectVideo(post) =>
                  /\ e.enclosure.url = post.video
                  /\ e.enclosure.type = IF IsPlaylist(post.video) THEN MpegUrl ELSE VideoMp4
                  /\ e.markup.kind = "player" /\ e.markup.url = post.video
                  /\ e.markup.type = e.enclosure.type
                  /\ e.markup.image = IF HasImage(post) THEN post.image ELSE None
            /\ (post.media_type = ImageType /\ HasImage(post)) =>
                  /\ e.enclosure = [url |-> post.image, type |-> ImageJpeg]
                  /\ e.markup.kind = "img" /\ e.markup.url = post.image
            /\ post.media_type = None =>
                  /\ e.enclosure = NoEnclosure
                  /\ e.markup = NoMarkup
                  /\ e.description = post.description

\* A feed was written with the entry of a playlist video, of a watch video
\* with its thumbnail, of an image post and of a post without media.
C14_Witness ==
    /\ pc = "rs_done"
    /\ feed_written
    /\ \E k \in DOMAIN entries : entries[k].enclosure.type = MpegUrl
    /\ \E k \in DOMAIN entries :
          entries[k].markup.kind = "anchor" /\ entries[k].enclosure.type = ImageJpeg
    /\ \E k \in DOMAIN entries : entries[k].markup.kind \in {"img", "none"}

(***************************************************************************)
(* The cache file (lines 600-621)                                          *)
(***************************************************************************)

\* The calendar of datetime: the year, month and day of the day that is n
\* days after 0001-01-01, and back.
DaysInMonth == <<31, 28, 31, 30, 31, 30, 31, 31, 30, 31, 30, 31>>
DaysBeforeMonth == <<0, 31, 59, 90, 120, 151, 181, 212, 243, 273, 304, 334>>
IsLeap(year) == year % 4 = 0 /\ (year % 100 # 0 \/ year % 400 = 0)
CivilOf(n) ==
    LET n400 == n \div 146097
        r400 == n % 146097
        n100 == r400 \div 36524
        r100 == r400 % 36524
        n4 == r100 \div 1461
        r4 == r100 % 1461
        n1 == r4 \div 365
        r1 == r4 % 365
        year == n400 * 400 + n100 * 100 + n4 * 4 + n1 + 1
        leap == n1 = 3 /\ (n4 # 24 \/ n100 = 3)
        guess == (r1 + 50) \div 32
        before(m) == DaysBeforeMonth[m] + (IF m > 2 /\ leap THEN 1 ELSE 0)
        month == IF before(guess) > r1 THEN guess - 1 ELSE guess
    IN  IF n1 = 4 \/ n100 = 4
          THEN [year |-> year - 1, month |-> 12, day |-> 31]
          ELSE [year |-> year, month |-> month, day |-> r1 - before(month) + 1]
DayOf(year, month, day) ==
    LET y == year - 1
    IN  y * 365 + y \div 4 - y \div 100 + y \div 400
        + DaysBeforeMonth[month] + (IF month > 2 /\ IsLeap(year) THEN 1 ELSE 0)
        + day - 1

\* n in decimal, with zeros in front up to the width.
Pad(n, width) ==
    LET digits == StrOf(n)
    IN  [k \in 1..(width - Len(digits)) |-> "0"] \o digits

\* Line 604 if the date alone were stored.
IsoFormat_DateOnly(t) ==
    LET date == CivilOf(t.day)
    IN  Pad(date.year, 4) \o <<"-">> \o Pad(date.month, 2) \o <<"-">> \o Pad(date.day, 2)

\* Line 604: isoformat() of a time in UTC: YYYY-MM-DDTHH:MM:SS+00:00
\* (the fraction of the second is not part of the model's times).
IsoFormat(t) ==
    LET date == CivilOf(t.day)
    IN  Pad(date.year, 4) \o <<"-">> \o Pad(date.month, 2) \o <<"-">> \o Pad(date.day, 2)
        \o <<"T">> \o Pad(t.sec \div 3600, 2) \o <<":">> \o Pad((t.sec % 3600) \div 60, 2)
        \o <<":">> \o Pad(t.sec % 60, 2) \o <<"+", "0", "0", ":", "0", "0">>

\* Line 616: datetime.fromisoformat: the date, then the time of day and the
\* UTC offset when the text has them; the result is the time in UTC.
FromIso(text) ==
    LET Num(a, b) == IntOf(SubSeq(text, a, b))
        day == DayOf(Num(1, 4), Num(6, 7), Num(9, 10))
        sec == IF Len(text) >= 19 THEN Num(12, 13) * 3600 + Num(15, 16) * 60 + Num(18, 19)
               ELSE 0
        offset == IF Len(text) >= 25 THEN Num(21, 22) * 3600 + Num(24, 25) * 60 ELSE 0
        local == [day |-> day, sec |-> sec]
    IN  IF offset = 0 THEN local
        ELSE IF text[20] = "+" THEN Minus(local, [days |-> 0, secs |-> offset])
        ELSE Minus([day |-> day + 1, sec |-> sec], [days |-> 0, secs |-> SecondsPerDay - offset])

\* json.dump and json.load of a value of a post: None is null, a string is
\* a string.
JsonOf(v) == IF v = None THEN [type |-> "null", text |-> <<>>] ELSE [type |-> "string", text |-> v]
ValueOf(json) == IF json.type = "null" THEN None ELSE json.text

\* Line 604: the object dumped for a post, and lines 615-616: the post read
\* back from it.
DumpedPost(post) ==
    [title |-> JsonOf(post.title), description |-> JsonOf(post.description),
     link |-> JsonOf(post.link), guid |-> JsonOf(post.guid),
     pubDate |-> JsonOf(IsoFormat(post.pubDate)),
     image |-> JsonOf(post.image), video |-> JsonOf(post.video),
     media_type |-> JsonOf(post.media_type)]
LoadedPost(object) ==
    [title |-> ValueOf(object.title), description |-> ValueOf(object.description),
     link |-> ValueOf(object.link), guid |-> ValueOf(object.guid),
     pubDate |-> FromIso(ValueOf(object.pubDate)),
     image |-> ValueOf(object.image), video |-> ValueOf(object.video),
     media_type |-> ValueOf(object.media_type)]

\* A cache file: missing, unreadable, or the list save_cache has dumped.
NoFile == [exists |-> FALSE, valid |-> FALSE, data |-> <<>>]
BrokenFile == [exists |-> TRUE, valid |-> FALSE, data |-> <<>>]
Dumped(cached) ==
    [exists |-> TRUE, valid |-> TRUE,
     data |-> [k \in DOMAIN cached |-> DumpedPost(cached[k])]]

\* Lines 609-621: the posts of the cache file, [] when it is missing or
\* when reading it raises.
LoadCache(file) ==
    IF ~file.exists \/ ~file.valid THEN <<>>
    ELSE [k \in DOMAIN file.data |-> LoadedPost(file.data[k])]

(***************************************************************************)
(* save_cache then load_cache (lines 600-621)                              *)
(***************************************************************************)

\* The posts a scraper may hold when its cache is saved: posts made by
\* _extract_posts, some of them dated at the first hour of datetime, at the
\* last second of a leap day and at the last day of a leap century year.
CacheFile == "acme"
DateSamples ==
    {[day |-> 0, sec |-> 3600], [day |-> DayOf(2024, 2, 29), sec |-> SecondsPerDay - 1],
     [day |-> DayOf(2000, 12, 31), sec |-> 0], [day |-> DayOf(1900, 3, 1), sec |-> 43200]}
CacheSamples ==
    RssSamples \cup {[ProcessArticle(Plain, 0).post EXCEPT !.pubDate = d] : d \in DateSamples}

InitCache ==
    /\ pc = "ca_save"
    /\ fresh \in SeqsUpTo(CacheSamples, MaxRssPosts)
    /\ cache_store = [f \in {CacheFile} |-> NoFile]
    /\ main_posts = <<>>
    /\ accounts = <<>>
    /\ account_idx = 0
    /\ feed_store = <<>>
    /\ outcomes = <<>>
    /\ HbStart
    /\ ScStart
    /\ ExStart
    /\ RsStart

\* Lines 600-607: save_cache dumps self.posts, or reports that it could not
\* open the file.
CA_Save ==
    /\ pc = "ca_save"
    /\ \/ cache_store' = [cache_store EXCEPT ![CacheFile] = Dumped(fresh)]
       \/ UNCHANGED cache_store
    /\ pc' = "ca_load"
    /\ UNCHANGED <<accounts, account_idx, fresh, main_posts, feed_store, outcomes>>
    /\ UNCHANGED notMn

\* Lines 609-621: load_cache.
CA_Load ==
    /\ pc = "ca_load"
    /\ main_posts' = LoadCache(cache_store[CacheFile])
    /\ pc' = "ca_loaded"
    /\ UNCHANGED <<accounts, account_idx, fresh, cache_store, feed_store, outcomes>>
    /\ UNCHANGED notMn

NextCache ==
    \/ CA_Save
    \/ CA_Load

SpecCache == InitCache /\ [][NextCache]_vars

\* C15: the posts read back from a cache file that save_cache has written
\* are as many as the posts saved, in the same order, with the same title,
\* description, link, guid, image, video and media_type, and the same date.
C15_CacheRoundTrip ==
    (pc = "ca_loaded" /\ cache_store[CacheFile].exists) =>
        /\ Len(main_posts) = Len(fresh)
        /\ \A k \in DOMAIN fresh :
              /\ main_posts[k].title = fresh[k].title
              /\ main_posts[k].description = fresh[k].description
              /\ main_posts[k].link = fresh[k].link
              /\ main_posts[k].guid = fresh[k].guid
              /\ main_posts[k].image = fresh[k].image
              /\ main_posts[k].video = fresh[k].video
              /\ main_posts[k].media_type = fresh[k].media_type
              /\ main_posts[k].pubDate = fresh[k].pubDate

\* Two posts were saved and read back: one dated on a leap day, one without
\* media.
C15_Witness ==
    /\ pc = "ca_loaded"
    /\ cache_store[CacheFile].exists
    /\ Len(fresh) = 2
    /\ fresh[1].pubDate = [day |-> DayOf(2024, 2, 29), sec |-> SecondsPerDay - 1]
    /\ fresh[2].video # None
    /\ fresh[2].image = None
    /\ main_posts = fresh

(***************************************************************************)
(* main (lines 681-729)                                                    *)
(***************************************************************************)

\* The entries generate_rss adds for a list of posts (lines 627-673).
FeedEntries(given) ==
    [k \in DOMAIN given |-> EntryOf(SortedByDate(given)[k])]
NoFeed == [written |-> FALSE, entries |-> <<>>]

\* The accounts file: entries with and without each of the three keys
\* (keys: the keys the entry has).
MaxAccounts == 2
Filenames == {"acme", "beta"}
AccountKeys == {"name", "url", "filename"}
Acme == [name |-> <<"A", "c", "m", "e">>, url |-> PageUrl, filename |-> "acme", keys |-> AccountKeys]
Beta == [name |-> <<"B", "e", "t", "a">>, url |-> <<"h", "t", "t", "p", "s", ":", "/", "/", "w", "w", "w", ".", "f", "a", "c", "e", "b", "o", "o", "k", ".", "c", "o", "m", "/", "b", "e", "t", "a">>, filename |-> "beta",
         keys |-> AccountKeys]
AccountSamples ==
    {Acme, Beta,
     [Acme EXCEPT !.keys = {"url", "filename"}],
     [Acme EXCEPT !.keys = {"name", "filename"}],
     [Beta EXCEPT !.keys = {"name", "url"}]}
HasKey(account, key) == key \in account.keys

\* What a scrape may return, and what the cache files may hold at the start.
FreshLists ==
    {<<>>, <<ProcessArticle(Plain, 0).post>>,
     <<ProcessArticle(FallbackPost, 1).post, ProcessArticle(ImagePost, 0).post>>}
CacheFiles == {NoFile, BrokenFile, Dumped(<<>>), Dumped(<<ProcessArticle(LinkedPost, 0).post>>)}

InitMain ==
    /\ pc = "mn_load"
    /\ accounts \in SeqsUpTo(AccountSamples, MaxAccounts)
    /\ account_idx = 0
    /\ fresh = <<>>
    /\ main_posts = <<>>
    /\ cache_store \in [Filenames -> CacheFiles]
    /\ feed_store = [f \in Filenames |-> NoFeed]
    /\ outcomes = <<>>
    /\ HbStart
    /\ ScStart
    /\ ExStart
    /\ RsStart

Account == accounts[account_idx]
Ended(how) == Append(outcomes, [account |-> account_idx, how |-> how])

\* Lines 688-696: read the accounts file; main returns when it is missing
\* or is not JSON.
MN_Load ==
    /\ pc = "mn_load"
    /\ \/ pc' = "mn_dirs"
       \/ pc' = "mn_no_accounts"
    /\ UNCHANGED mnVars
    /\ UNCHANGED notMn

\* Lines 699-702: create the directories; what makedirs raises leaves main.
MN_Dirs ==
    /\ pc = "mn_dirs"
    /\ \/ pc' = "mn_next"
       \/ pc' = "mn_raised"
    /\ UNCHANGED mnVars
    /\ UNCHANGED notMn

\* Line 704: the next account of the list, or the end of main.
MN_Next ==
    /\ pc = "mn_next"
    /\ IF account_idx < Len(accounts)
         THEN /\ account_idx' = account_idx + 1
              /\ pc' = "mn_account"
         ELSE /\ pc' = "mn_done"
              /\ UNCHANGED account_idx
    /\ fresh' = <<>>
    /\ main_posts' = <<>>
    /\ UNCHANGED <<accounts, cache_store, feed_store, outcomes>>
    /\ UNCHANGED notMn

\* Lines 706-710: account['name'], account['url'] and account['filename']
\* raise KeyError for a key the account does not have.
MN_Account ==
    /\ pc = "mn_account"
    /\ pc' = IF \A key \in AccountKeys : HasKey(Account, key)
               THEN "mn_scrape" ELSE "mn_handler"
    /\ UNCHANGED mnVars
    /\ UNCHANGED notMn

\* Lines 713-720 without the test of line 715: every result would be saved
\* and published.
MN_Scrape_AlwaysSave ==
    /\ pc = "mn_scrape"
    /\ \E got \in FreshLists :
         /\ fresh' = got
         /\ main_posts' = got
         /\ pc' = "mn_save"
    /\ UNCHANGED <<accounts, account_idx, cache_store, feed_store, outcomes>>
    /\ UNCHANGED notMn

\* Lines 713-720: scrape; a non-empty result goes to the cache and the feed,
\* an empty one to the cached posts.
MN_Scrape ==
    /\ pc = "mn_scrape"
    /\ \/ \E got \in FreshLists :
            /\ fresh' = got
            /\ main_posts' = got
            /\ pc' = IF got # <<>> THEN "mn_save" ELSE "mn_load_cache"
       \/ /\ pc' = "mn_handler"
          /\ UNCHANGED <<fresh, main_posts>>
    /\ UNCHANGED <<accounts, account_idx, cache_store, feed_store, outcomes>>
    /\ UNCHANGED notMn

\* Line 717 (600-607): save_cache writes the file, or reports that it could
\* not open it.
MN_Save ==
    /\ pc = "mn_save"
    /\ \/ cache_store' = [cache_store EXCEPT ![Account.filename] = Dumped(fresh)]
       \/ UNCHANGED cache_store
    /\ pc' = "mn_rss"
    /\ UNCHANGED <<accounts, account_idx, fresh, main_posts, feed_store, outcomes>>
    /\ UNCHANGED notMn

\* Lines 721-726 (609-621): load_cache; without cached posts the account is
\* only reported.
MN_LoadCache ==
    /\ pc = "mn_load_cache"
    /\ main_posts' = LoadCache(cache_store[Account.filename])
    /\ IF main_posts' # <<>>
         THEN /\ pc' = "mn_rss"
              /\ UNCHANGED outcomes
         ELSE /\ pc' = "mn_next"
              /\ outcomes' = Ended("no data")
    /\ UNCHANGED <<accounts, account_idx, fresh, cache_store, feed_store>>
    /\ UNCHANGED notMn

\* Lines 718 and 723 (623-679): generate_rss writes the feed, or reports
\* that writing it raised.
MN_Rss ==
    /\ pc = "mn_rss"
    /\ \/ feed_store' = [feed_store EXCEPT ![Account.filename] =
                            [written |-> TRUE, entries |-> FeedEntries(main_posts)]]
       \/ UNCHANGED feed_store
    /\ outcomes' = Ended(IF fresh # <<>> THEN "scraped" ELSE "cached")
    /\ pc' = "mn_next"
    /\ UNCHANGED <<accounts, account_idx, fresh, main_posts, cache_store>>
    /\ UNCHANGED notMn

\* Lines 728-729: the handler prints account['name'], which raises again for
\* an account without name: the exception then leaves main.
MN_Handler ==
    /\ pc = "mn_handler"
    /\ IF HasKey(Account, "name")
         THEN /\ pc' = "mn_next"
              /\ outcomes' = Ended("error")
         ELSE /\ pc' = "mn_raised"
              /\ UNCHANGED outcomes
    /\ UNCHANGED <<accounts, account_idx, fresh, main_posts, cache_store, feed_store>>
    /\ UNCHANGED notMn

NextMain ==
    \/ MN_Load
    \/ MN_Dirs
    \/ MN_Next
    \/ MN_Account
    \/ MN_Scrape
    \/ MN_Save
    \/ MN_LoadCache
    \/ MN_Rss
    \/ MN_Handler

SpecMain == InitMain /\ [][NextMain]_vars

\* C10 as stated: once the loop over the accounts has begun, main() does not
\* raise, and when it ends every account of the list has been processed, in
\* the order of the list.
C10_EveryAccountProcessed ==
    /\ pc = "mn_raised" => account_idx = 0
    /\ pc = "mn_done" =>
          /\ Len(outcomes) = Len(accounts)
          /\ \A k \in DOMAIN outcomes : outcomes[k].account = k

(***************************************************************************)
(* Properties of a whole call of _extract_posts                            *)
(***************************************************************************)

\* The calls whose exception reaches the handler of line 594 (the comment
\* test, the message selectors, the link), and those with a handler of their
\* own (the expansion, the media, the text read for the timestamp).
SkippingFailures == {"reply_query", "aria", "msg_query", "link"}
RecoveredFailures ==
    {"expand", "video_id", "video_src", "poster", "thumb", "feed_img", "photo_img",
     "images", "svg", "ts_text"}

IdYielded(b) ==
    /\ b.video
    /\ b.fails \notin {"video_query", "video_id"}
    /\ Truthy(b.video_id)
ResolverLines(b) == SplitOn(Strip(b.ytdlp), "\n")
IsMp4Line(line) == StartsWith(line, <<"h", "t", "t", "p">>) /\ Contains(line, <<".", "m", "p", "4">>)

\* C12: for a block that yields a video identifier the post is appended and
\* its video URL is set: the watch permalink of the identifier when the
\* resolver raised or printed neither an http line containing .mp4 nor a
\* first line starting with http; else the first http line containing .mp4;
\* else the first line.
C12_ResolvedOrPermalink ==
    (last_kind # "none" /\ IdYielded(article)) =>
        /\ last_kind = "post"
        /\ LastPost.media_type = VideoType
        /\ LastPost.video # None
        /\ article.ytdlp = None => LastPost.video = WatchPrefix \o article.video_id
        /\ article.ytdlp # None =>
              LET lines == ResolverLines(article)
                  NoMp4 == \A k \in DOMAIN lines : ~IsMp4Line(lines[k])
              IN  /\ \A k \in DOMAIN lines :
                        (IsMp4Line(lines[k]) /\ \A j \in 1..(k - 1) : ~IsMp4Line(lines[j])) =>
                            LastPost.video = lines[k]
                  /\ (NoMp4 /\ StartsWith(lines[1], <<"h", "t", "t", "p">>)) => LastPost.video = lines[1]
                  /\ (NoMp4 /\ ~StartsWith(lines[1], <<"h", "t", "t", "p">>)) =>
                        LastPost.video = WatchPrefix \o article.video_id

\* The resolver printed a .webm line and then a .mp4 line: the post carries
\* the .mp4 line.
C12_Witness ==
    /\ last_kind = "post"
    /\ IdYielded(article)
    /\ article.ytdlp = <<"h", "t", "t", "p", "s", ":", "/", "/", "v", "/", "a", ".", "w", "e", "b", "m", "\n", "h", "t", "t", "p", "s", ":", "/", "/", "v", "/", "b", ".", "m", "p", "4">>
    /\ LastPost.video = <<"h", "t", "t", "p", "s", ":", "/", "/", "v", "/", "b", ".", "m", "p", "4">>

\* The posts the cache of the current account gives.
CachedNow == LoadCache(cache_store[Account.filename])

\* C19: the cache file of an account is written only after a scrape that
\* returned posts, with these posts; the feed is written from the fresh posts
\* when there are some, else from the cached posts when there are some, else
\* not at all; and a cache that holds posts never comes to hold none.
C19_CacheAndFeedSources ==
    [][/\ cache_store' # cache_store =>
            /\ pc = "mn_save" /\ fresh # <<>>
            /\ cache_store' = [cache_store EXCEPT ![Account.filename] = Dumped(fresh)]
       /\ (pc = "mn_scrape" /\ fresh' = <<>>) => pc' \in {"mn_load_cache", "mn_handler"}
       /\ feed_store' # feed_store =>
            /\ pc = "mn_rss"
            /\ fresh # <<>> \/ CachedNow # <<>>
            /\ feed_store' = [feed_store EXCEPT ![Account.filename] =
                  [written |-> TRUE,
                   entries |-> FeedEntries(IF fresh # <<>> THEN fresh ELSE CachedNow)]]
       /\ (pc = "mn_load_cache" /\ CachedNow = <<>>) =>
            pc' = "mn_next" /\ feed_store' = feed_store
       /\ \A f \in Filenames :
            LoadCache(cache_store[f]) # <<>> => LoadCache(cache_store'[f]) # <<>>
      ]_vars

\* An account whose scrape returned nothing had its feed written from its
\* cache, which still holds its posts; another account was scraped and
\* saved.
C19_Witness ==
    /\ pc = "mn_done"
    /\ Len(outcomes) = 2
    /\ outcomes[1].how = "cached" /\ outcomes[2].how = "scraped"
    /\ LET first == accounts[1].filename
           second == accounts[2].filename
       IN  /\ first # second
           /\ LoadCache(cache_store[first]) # <<>>
           /\ feed_store[first] =
                 [written |-> TRUE, entries |-> FeedEntries(LoadCache(cache_store[first]))]
           /\ feed_store[second] =
                 [written |-> TRUE, entries |-> FeedEntries(LoadCache(cache_store[second]))]

\* C20: the posts returned by one call of _extract_posts have distinct guids,
\* also when the permalinks of two blocks differ only in the query string or
\* resolve to the same link.
C20_GuidsDistinct ==
    \A j \in DOMAIN posts : \A k \in DOMAIN posts :
        j # k => posts[j].guid # posts[k].guid

(***************************************************************************)
(* main() with the steps of scrape() in place of its outcome (lines        *)
(* 704-729 and 61-205)                                                     *)
(***************************************************************************)

\* The posts behind the ranks of a list that scrape() returns.
RankedPosts ==
    <<ProcessArticle(Plain, 0).post, ProcessArticle(FallbackPost, 1).post,
      ProcessArticle(ImagePost, 2).post>>
PostsOf(ranks) == [k \in DOMAIN ranks |-> RankedPosts[((ranks[k] - 1) % 3) + 1]]

\* The accounts of a run: the first one is scraped, the second one, when
\* there is one, lacks its file name and ends at line 709.
RunAccounts == {<<Acme>>, <<Acme, [Beta EXCEPT !.keys = {"name", "url"}]>>}

InitRun ==
    /\ pc = "mn_next"
    /\ accounts \in RunAccounts
    /\ account_idx = 0
    /\ fresh = <<>>
    /\ main_posts = <<>>
    /\ \E file \in {NoFile, Dumped(<<ProcessArticle(LinkedPost, 0).post>>)} :
         cache_store = [f \in Filenames |-> IF f = "acme" THEN file ELSE NoFile]
    /\ feed_store = [f \in Filenames |-> NoFeed]
    /\ outcomes = <<>>
    /\ HbStart
    /\ ScStart
    /\ ExStart
    /\ RsStart

\* Lines 707 and 713: a new FacebookScraper (self.posts = []) and the call of
\* its scrape().
RN_Call ==
    /\ pc = "mn_scrape"
    /\ pc' = "sc_launch"
    /\ page_exists' = FALSE
    /\ browser_closed' = FALSE
    /\ last_height' = 0
    /\ no_change_count' = 0
    /\ scroll_iteration' = 0
    /\ heights' = <<>>
    /\ attempt' = 0
    /\ self_posts' = <<>>
    /\ extracted' = <<>>
    /\ extract_calls' = 0
    /\ caught' = FALSE
    /\ raised_at' = "nowhere"
    /\ error_shot' = FALSE
    /\ result' = <<>>
    /\ UNCHANGED <<hbVars, exVars, rsVars, mnVars>>

\* Lines 713-720: posts = the list scrape() returned; `if posts`.
RN_Return ==
    /\ pc = "sc_returned"
    /\ fresh' = PostsOf(result)
    /\ main_posts' = PostsOf(result)
    /\ pc' = IF result # <<>> THEN "mn_save" ELSE "mn_load_cache"
    /\ UNCHANGED <<accounts, account_idx, cache_store, feed_store, outcomes>>
    /\ UNCHANGED notMn

NextRun ==
    \/ MN_Next
    \/ MN_Account
    \/ RN_Call
    \/ NextScrape
    \/ RN_Return
    \/ MN_Save
    \/ MN_LoadCache
    \/ MN_Rss
    \/ MN_Handler

SpecRun == InitRun /\ [][NextRun]_vars

\* The navigation of the current scrape timed out: the code is at line 126,
\* or it closed the browser without having extracted, or the close of line
\* 127 raised.
NavTimedOut ==
    \/ pc = "sc_timeout"
    \/ browser_closed /\ extract_calls = 0
    \/ raised_at = "sc_timeout"

\* C18: when the navigation times out, scrape() closes the browser, scrolls
\* nothing and extracts nothing, returns an empty list and raises nothing; the
\* caller then loads the cache for this account and goes on to the next
\* accounts.
C18_TimeoutRecoverable ==
    [][/\ pc = "sc_timeout" =>
            \/ pc' = "sc_returned" /\ browser_closed' /\ result' = <<>>
            \/ pc' = "sc_handler" /\ raised_at' = "sc_timeout"
       /\ NavTimedOut' =>
            /\ heights' = <<>> /\ scroll_iteration' = 0
            /\ extract_calls' = 0 /\ self_posts' = <<>>
       /\ (NavTimedOut /\ pc = "sc_handler") => pc' = "sc_return"
       /\ (NavTimedOut /\ pc = "sc_return") => pc' = "sc_returned" /\ result' = <<>>
       /\ (NavTimedOut /\ pc = "sc_returned") =>
            pc' = "mn_load_cache" /\ fresh' = <<>> /\ account_idx' = account_idx
       /\ (NavTimedOut /\ pc = "mn_load_cache") =>
            /\ pc' \in {"mn_rss", "mn_next"}
            /\ main_posts' = LoadCache(cache_store[Account.filename])
       /\ (NavTimedOut /\ pc = "mn_rss") => pc' = "mn_next"
       /\ (NavTimedOut /\ pc = "mn_next" /\ account_idx < Len(accounts)) =>
            pc' = "mn_account" /\ account_idx' = account_idx + 1
      ]_vars

\* The first account's navigation timed out and its browser was closed; its
\* feed came from the cache, and the second account is being processed.
C18_Witness ==
    /\ pc = "mn_account"
    /\ account_idx = 2
    /\ browser_closed /\ extract_calls = 0
    /\ result = <<>>
    /\ outcomes = <<[account |-> 1, how |-> "cached"]>>

====
